---- MODULE Spec2Model ----
(***************************************************************************)
(* A model of the 1touch loader (python/one_touch_loader): the Sportmonks  *)
(* fetch client, the fixtures store and the three derived tables           *)
(* (standings, knockout_ties, points_pace).                                *)
(*                                                                         *)
(* Durations are integers in milliseconds.  SQL NULL / Python None is the  *)
(* integer Null, which no id, score, year or time of the model equals.     *)
(***************************************************************************)
EXTENDS Integers, Sequences, FiniteSets, TLC

VARIABLES
    \* ---- relational store -------------------------------------------------
    fixtures,       \* table fixtures: fixture_id -> row, for the stored ids
    seasons,        \* table seasons: season_id -> row, for the stored ids
    standings,      \* set of rows of table standings
    knockout_ties,  \* set of rows of table knockout_ties
    points_pace,    \* set of rows of table points_pace
    lastOp,         \* the pipeline step that ran last, with what it computed
    \* ---- one SportmonksClient._get call -----------------------------------
    max_retries,    \* the max_retries argument of the call
    pc,             \* "loop": inside the for loop, "done": returned or raised
    attempt,        \* the loop variable of `for attempt in range(max_retries)`
    backoff,        \* local variable backoff (ms)
    last_exc,       \* local variable last_exc: request number whose error it holds, 0 = None
    history,        \* status class of every response received so far, in order
    sleeps,         \* every time.sleep performed so far, in order
    result,         \* how the call ended
    \* ---- one run of a pipeline step ---------------------------------------
    pager,          \* one paginated iterator of SportmonksClient and its consumer
    ingest,         \* one fixtures ingest step: its row buffer and its writes
    cache           \* Caches.league_meta and the calls that share it

dbVars     == <<fixtures, seasons, standings, knockout_ties, points_pace, lastOp>>
clientVars == <<max_retries, pc, attempt, backoff, last_exc, history, sleeps, result>>
runVars    == <<pager, ingest, cache>>
vars       == <<fixtures, seasons, standings, knockout_ties, points_pace, lastOp,
                max_retries, pc, attempt, backoff, last_exc, history, sleeps, result,
                pager, ingest, cache>>

Null   == 0 - 1

Min(a, b) == IF a <= b THEN a ELSE b
Max(a, b) == IF a >= b THEN a ELSE b

(***************************************************************************)
(*                    core/sportmonks.py: SportmonksClient._get            *)
(***************************************************************************)

\* Largest max_retries argument explored.
MaxRetriesArg == 3

InitialBackoff == 1000      \* backoff = 1.0
RateLimitCap   == 120000    \* min(sleep_sec, 120.0), min(backoff * 2, 120.0)
RateLimitFloor == 500       \* max(0.5, ...)
RateLimitJitter == 500      \* random.uniform(0, 0.5)
ServerErrorCap == 60000     \* min(backoff * 2, 60.0)
ServerErrorJitter == 250    \* random.uniform(0, 0.25)

\* The Retry-After headers a 429 response may carry: none, a number of
\* milliseconds, or text that float() rejects.
NoHeader   == [kind |-> "none"]
BadHeader  == [kind |-> "text"]
NumHeader(ms) == [kind |-> "num", ms |-> ms]
RetryAfterHeaders == {NoHeader, BadHeader, NumHeader(0), NumHeader(30000), NumHeader(300000)}

\* sleep_sec of lines 32-36.
SleepSec(retry_after, bo) ==
    IF retry_after.kind = "num" THEN retry_after.ms ELSE bo

\* The argument of time.sleep on a 429, jitter excluded (line 37).
RateLimitDelay(retry_after, bo) ==
    Max(RateLimitFloor, Min(SleepSec(retry_after, bo), RateLimitCap))

\* backoff after a 429 (line 38) and after a retried 5xx (line 46).
BackoffAfter429(bo) == Min(bo * 2, RateLimitCap)
BackoffAfter5xx(bo) == Min(bo * 2, ServerErrorCap)

\* Line 44: a 5xx is retried unless this was the last permitted attempt.
RetryServerError(att, maxr) == att < maxr - 1

NoResult == [kind |-> "none"]

ClientInit ==
    /\ max_retries \in 1..MaxRetriesArg
    /\ pc = "loop"
    /\ attempt = 0
    /\ backoff = InitialBackoff
    /\ last_exc = 0
    /\ history = <<>>
    /\ sleeps = <<>>
    /\ result = NoResult

ClientIdle ==
    /\ max_retries = 1
    /\ pc = "done"
    /\ attempt = 0
    /\ backoff = InitialBackoff
    /\ last_exc = 0
    /\ history = <<>>
    /\ sleeps = <<>>
    /\ result = NoResult

Idle == [pc |-> "idle"]

\* No iterator, ingest step or cache user is running.
RunIdle ==
    /\ pager = Idle
    /\ ingest = Idle
    /\ cache = Idle

\* A loop that goes round once more than range(max_retries).
InLoop_OneMore == pc = "loop" /\ attempt <= max_retries

\* for attempt in range(max_retries): the body runs.
InLoop == pc = "loop" /\ attempt < max_retries

\* The request of line 30 raised (connection error, timeout): nothing
\* catches it.
GetTransportError ==
    /\ InLoop
    /\ history' = Append(history, "transport")
    /\ result' = [kind |-> "raise", error |-> "transport", of |-> Len(history) + 1]
    /\ pc' = "done"
    /\ UNCHANGED <<max_retries, attempt, backoff, last_exc, sleeps>>

\* Lines 31-39: a 429 response.
Get429 ==
    /\ InLoop
    /\ \E ra \in RetryAfterHeaders, jitter \in {0, RateLimitJitter} :
          sleeps' = Append(sleeps, [after  |-> Len(history) + 1,
                                    status |-> "429",
                                    header |-> ra,
                                    base   |-> RateLimitDelay(ra, backoff),
                                    jitter |-> jitter,
                                    backoff |-> backoff])
    /\ history' = Append(history, "429")
    /\ backoff' = BackoffAfter429(backoff)
    /\ attempt' = attempt + 1
    /\ UNCHANGED <<max_retries, pc, last_exc, result>>

\* Lines 40-47: a 5xx response that is retried.
Get5xxRetry ==
    /\ InLoop
    /\ RetryServerError(attempt, max_retries)
    /\ \E jitter \in {0, ServerErrorJitter} :
          sleeps' = Append(sleeps, [after  |-> Len(history) + 1,
                                    status |-> "5xx",
                                    header |-> NoHeader,
                                    base   |-> backoff,
                                    jitter |-> jitter,
                                    backoff |-> backoff])
    /\ history' = Append(history, "5xx")
    /\ last_exc' = Len(history) + 1
    /\ backoff' = BackoffAfter5xx(backoff)
    /\ attempt' = attempt + 1
    /\ UNCHANGED <<max_retries, pc, result>>

\* A raise that sleeps the backoff before it re-raises.
GetRaise_SleepFirst ==
    /\ InLoop
    /\ \E status \in {"4xx", "5xx"} :
          /\ status = "5xx" => ~RetryServerError(attempt, max_retries)
          /\ history' = Append(history, status)
          /\ result' = [kind |-> "raise", error |-> status, of |-> Len(history) + 1]
          /\ sleeps' = Append(sleeps, [after  |-> Len(history) + 1,
                                       status |-> status,
                                       header |-> NoHeader,
                                       base   |-> backoff,
                                       jitter |-> 0,
                                       backoff |-> backoff])
    /\ last_exc' = Len(history) + 1
    /\ pc' = "done"
    /\ UNCHANGED <<max_retries, attempt, backoff>>

\* Lines 40-48: raise_for_status raised and the error is re-raised: a 5xx
\* on the last permitted attempt, or any other 4xx.
GetRaise ==
    /\ InLoop
    /\ \E status \in {"4xx", "5xx"} :
          /\ status = "5xx" => ~RetryServerError(attempt, max_retries)
          /\ history' = Append(history, status)
          /\ result' = [kind |-> "raise", error |-> status, of |-> Len(history) + 1]
    /\ last_exc' = Len(history) + 1
    /\ pc' = "done"
    /\ UNCHANGED <<max_retries, attempt, backoff, sleeps>>

\* Line 49: raise_for_status passed, the body is returned.
GetReturn ==
    /\ InLoop
    /\ history' = Append(history, "ok")
    /\ result' = [kind |-> "return", error |-> "none", of |-> Len(history) + 1]
    /\ pc' = "done"
    /\ UNCHANGED <<max_retries, attempt, backoff, last_exc, sleeps>>

\* Lines 50-52: the loop ran out.
GetExhausted ==
    /\ pc = "loop"
    /\ attempt >= max_retries
    /\ result' = IF last_exc # 0
                 THEN [kind |-> "raise", error |-> history[last_exc], of |-> last_exc]
                 ELSE [kind |-> "raise", error |-> "GET failed", of |-> 0]
    /\ pc' = "done"
    /\ UNCHANGED <<max_retries, attempt, backoff, last_exc, history, sleeps>>

\* Line 49: raise_for_status passed but the body is not JSON; resp.json()
\* raises and nothing catches it.
GetBadBody ==
    /\ InLoop
    /\ history' = Append(history, "not json")
    /\ result' = [kind |-> "raise", error |-> "decode", of |-> Len(history) + 1]
    /\ pc' = "done"
    /\ UNCHANGED <<max_retries, attempt, backoff, last_exc, sleeps>>

(***************************************************************************)
(*        SpecGet: one call of SportmonksClient._get(path, params,         *)
(*        max_retries) against a provider that answers as it likes         *)
(***************************************************************************)

GetInit ==
    /\ ClientInit
    /\ RunIdle
    /\ fixtures = <<>>
    /\ seasons = <<>>
    /\ standings = {}
    /\ knockout_ties = {}
    /\ points_pace = {}
    /\ lastOp = [op |-> "init"]

GetNext ==
    \/ GetTransportError /\ UNCHANGED <<dbVars, runVars>>
    \/ Get429 /\ UNCHANGED <<dbVars, runVars>>
    \/ Get5xxRetry /\ UNCHANGED <<dbVars, runVars>>
    \/ GetRaise /\ UNCHANGED <<dbVars, runVars>>
    \/ GetReturn /\ UNCHANGED <<dbVars, runVars>>
    \/ GetBadBody /\ UNCHANGED <<dbVars, runVars>>
    \/ GetExhausted /\ UNCHANGED <<dbVars, runVars>>

SpecGet == GetInit /\ [][GetNext]_vars

\* Every request returns or times out and every sleep ends (the longest is
\* 120.5 s), so a call that can take a step takes one.
SpecGetFair == SpecGet /\ WF_vars(GetNext)

(***************************************************************************)
(*                         the relational store                            *)
(***************************************************************************)

Range(f) == {f[x] : x \in DOMAIN f}

RECURSIVE Perms(_)
Perms(S) ==
    IF S = {} THEN {<<>>}
    ELSE UNION {{<<x>> \o p : p \in Perms(S \ {x})} : x \in S}

StartingAt(fid) == fixtures[fid].starting_at

\* What a SELECT ... ORDER BY starting_at ASC over the fixtures `ids` may
\* return: every enumeration with non-decreasing starting_at (rows with equal
\* starting_at in any order).
OrderedAsc(ids) ==
    {p \in Perms(ids) : \A i \in 1..(Len(p) - 1) : StartingAt(p[i]) <= StartingAt(p[i + 1])}

\* ORDER BY starting_at DESC
OrderedDesc(ids) ==
    {p \in Perms(ids) : \A i \in 1..(Len(p) - 1) : StartingAt(p[i]) >= StartingAt(p[i + 1])}

Reverse(s) == [i \in 1..Len(s) |-> s[Len(s) + 1 - i]]

\* s[-n:]
LastN(s, n) == IF Len(s) <= n THEN s ELSE SubSeq(s, Len(s) - n + 1, Len(s))

\* INSERT ... ON DUPLICATE KEY UPDATE col = VALUES(col) for every column
\* (SQL_UPSERT_FIXTURE, SQL_UPSERT_SEASON): the row is stored as given.
UpsertById(table, id, row) ==
    [i \in DOMAIN table \cup {id} |-> IF i = id THEN row ELSE table[i]]

\* One row of a fixtures ingest reaching SQL_UPSERT_FIXTURE.
UpsertFixture(fid, row) ==
    /\ fixtures' = UpsertById(fixtures, fid, row)
    /\ lastOp' = [op |-> "upsert_fixture", fixture_id |-> fid]
    /\ UNCHANGED <<seasons, standings, knockout_ties, points_pace>>

\* The fixture, with its id, as the SELECTs below return it.
Fx(fid) == [fixture_id |-> fid] @@ fixtures[fid]

\* home_team_id or away_team_id of the stored fixture is NULL.
NullTeam(fid) == fixtures[fid].home_team_id = Null \/ fixtures[fid].away_team_id = Null

\* Table stage_groups as the Europe ingest leaves it: group_id -> name.
StageGroups == (1 :> "Group A")

(***************************************************************************)
(*                 loaders/standings_loader.py: standings                  *)
(***************************************************************************)

STAGE_TYPE_GROUP     == 223
STAGE_TYPE_KNOCK_OUT == 224

\* seq[-5:] of _last5_for_team.
FormLength == 5

ResultForTeam(g, team_id) ==
    IF g.home_score = Null \/ g.away_score = Null THEN "none"
    ELSE IF team_id = g.home_team_id
         THEN (IF g.home_score > g.away_score THEN "W"
               ELSE IF g.home_score < g.away_score THEN "L" ELSE "D")
    ELSE IF team_id = g.away_team_id
         THEN (IF g.away_score > g.home_score THEN "W"
               ELSE IF g.away_score < g.home_score THEN "L" ELSE "D")
    ELSE "none"

\* seq of _last5_for_team before the slice, over the games games[1..n] taken
\* in the order given.
RECURSIVE FormSeq(_, _, _)
FormSeq(games, n, team_id) ==
    IF n = 0 THEN <<>>
    ELSE LET r == ResultForTeam(games[n], team_id)
             rest == FormSeq(games, n - 1, team_id)
         IN  IF r = "none" THEN rest ELSE Append(rest, r)

\* _last5_for_team(fixtures, team_id): walks reversed(fixtures).
Last5ForTeam(games, team_id) ==
    LET rev == Reverse(games)
    IN  LastN(FormSeq(rev, Len(rev), team_id), FormLength)

ZeroRow(tid) ==
    [team_id |-> tid, mp |-> 0, w |-> 0, d |-> 0, l |-> 0,
     gf |-> 0, ga |-> 0, gd |-> 0, pts |-> 0]

\* An aggregation in progress: the dict agg and the insertion order of its keys.
EmptyAgg == [rows |-> <<>>, order |-> <<>>]

AggTouch(acc, tid) ==
    IF tid \in DOMAIN acc.rows THEN acc
    ELSE [rows |-> acc.rows @@ (tid :> ZeroRow(tid)), order |-> Append(acc.order, tid)]

\* agg[tid]["mp"] += 1; agg[tid]["gf"] += gf; agg[tid]["ga"] += ga
AggGoals(acc, tid, gf, ga) ==
    LET a == AggTouch(acc, tid)
    IN  [a EXCEPT !.rows[tid].mp = @ + 1, !.rows[tid].gf = @ + gf, !.rows[tid].ga = @ + ga]

\* A draw that adds no point.
AggDraw_NoPoint(acc, tid) == [acc EXCEPT !.rows[tid].d = @ + 1]

AggWin(acc, tid)  == [acc EXCEPT !.rows[tid].w = @ + 1, !.rows[tid].pts = @ + 3]
AggLoss(acc, tid) == [acc EXCEPT !.rows[tid].l = @ + 1]
AggDraw(acc, tid) == [acc EXCEPT !.rows[tid].d = @ + 1, !.rows[tid].pts = @ + 1]

\* The body of the aggregation loop for one game.
AggGame(acc, g) ==
    IF g.home_score = Null \/ g.away_score = Null THEN acc
    ELSE LET h == g.home_team_id
             a == g.away_team_id
             a1 == AggGoals(acc, h, g.home_score, g.away_score)
             a2 == AggGoals(a1, a, g.away_score, g.home_score)
         IN  IF g.home_score > g.away_score THEN AggLoss(AggWin(a2, h), a)
             ELSE IF g.home_score < g.away_score THEN AggLoss(AggWin(a2, a), h)
             ELSE AggDraw(AggDraw(a2, h), a)

RECURSIVE AggLoop(_, _)
AggLoop(games, n) ==
    IF n = 0 THEN EmptyAgg ELSE AggGame(AggLoop(games, n - 1), games[n])

\* r["gd"] = r["gf"] - r["ga"]
WithGoalDiff(r) == [r EXCEPT !.gd = r.gf - r.ga]

\* list(agg.values()) after the gd pass.
AggValues(acc) == [i \in 1..Len(acc.order) |-> WithGoalDiff(acc.rows[acc.order[i]])]

\* A sort key without goals-for: (-pts, -gd, team_id).
RankKeyLess_NoGoalsFor(a, b) ==
    \/ a.pts > b.pts
    \/ a.pts = b.pts /\ a.gd > b.gd
    \/ a.pts = b.pts /\ a.gd = b.gd /\ a.team_id < b.team_id

\* The sort key of _rank_rows compared: (-pts, -gd, -gf, team_id).
RankKeyLess(a, b) ==
    \/ a.pts > b.pts
    \/ a.pts = b.pts /\ a.gd > b.gd
    \/ a.pts = b.pts /\ a.gd = b.gd /\ a.gf > b.gf
    \/ a.pts = b.pts /\ a.gd = b.gd /\ a.gf = b.gf /\ a.team_id < b.team_id

\* list.sort: stable insertion of r into an already sorted list.
RECURSIVE InsertRanked(_, _)
InsertRanked(sorted, r) ==
    IF sorted = <<>> THEN <<r>>
    ELSE IF RankKeyLess(r, sorted[1]) THEN <<r>> \o sorted
    ELSE <<sorted[1]>> \o InsertRanked(Tail(sorted), r)

RECURSIVE SortRanked(_, _)
SortRanked(rows, n) ==
    IF n = 0 THEN <<>> ELSE InsertRanked(SortRanked(rows, n - 1), rows[n])

\* _rank_rows: sort, then r["pos"] = i.
RankRows(rows) ==
    LET sorted == SortRanked(rows, Len(rows))
    IN  [i \in 1..Len(sorted) |-> sorted[i] @@ [pos |-> i]]

\* The games of `games` (in order) in which team tid is home or away and
\* both scores are set: latest_by_team[tid].
RECURSIVE GamesOfTeam(_, _, _)
GamesOfTeam(games, n, tid) ==
    IF n = 0 THEN <<>>
    ELSE LET g == games[n]
             rest == GamesOfTeam(games, n - 1, tid)
         IN  IF /\ g.home_score # Null /\ g.away_score # Null
                /\ (g.home_team_id = tid \/ g.away_team_id = tid)
             THEN Append(rest, g) ELSE rest

StandingsRow(league_id, season_id, phase, group_name, r, last5) ==
    [league_id |-> league_id, season_id |-> season_id, phase |-> phase,
     group_name |-> group_name, team_id |-> r.team_id, position |-> r.pos,
     matches_played |-> r.mp, won |-> r.w, draw |-> r.d, lost |-> r.l,
     goals_for |-> r.gf, goals_against |-> r.ga, goal_diff |-> r.gd,
     points |-> r.pts, last5_form |-> last5]

\* The batch one ranked table becomes: aggregation, ranking and form over
\* the games as read.
StandingsBatch(league_id, season_id, phase, group_name, games) ==
    LET ranked == RankRows(AggValues(AggLoop(games, Len(games))))
    IN  {StandingsRow(league_id, season_id, phase, group_name, ranked[i],
                      Last5ForTeam(GamesOfTeam(games, Len(games), ranked[i].team_id),
                                   ranked[i].team_id)) : i \in 1..Len(ranked)}

\* The unique key of table standings.
StandingsKey(r) == <<r.league_id, r.season_id, r.phase, r.group_name, r.team_id>>

\* SQL_UPSERT_STANDINGS over a batch: a row of the batch replaces the stored
\* row of its key; nothing is deleted.
UpsertStandings(table, batch) ==
    {r \in table : \A b \in batch : StandingsKey(b) # StandingsKey(r)} \cup batch

\* The rows the SELECT of build_league_standings_for_season matches.
LeagueStandingsSelect(league_id, season_id) ==
    {fid \in DOMAIN fixtures :
        /\ fixtures[fid].league_id = league_id
        /\ fixtures[fid].season_id = season_id
        /\ fixtures[fid].status = "past"}

GamesRead(order) == [i \in 1..Len(order) |-> Fx(order[i])]

\* The step ends with an exception.
Raised(op, error) == [op |-> "raise", in |-> op, error |-> error]

\* rows.sort(key=(-pts, -gd, -gf, team_id)) compares None with an int: the
\* row of team None shares (pts, gd, gf) with another row.
SortRaises(rows) ==
    \E i, j \in 1..Len(rows) :
        /\ i # j
        /\ rows[i].team_id = Null
        /\ rows[i].pts = rows[j].pts /\ rows[i].gd = rows[j].gd /\ rows[i].gf = rows[j].gf

\* build_league_standings_for_season(league_id, season_id).  A batch with a
\* row of team None is stored or rejected, as the column allows.
BuildLeagueStandings(league_id, season_id) ==
    \E order \in OrderedDesc(LeagueStandingsSelect(league_id, season_id)) :
        LET games == GamesRead(order)
            batch == StandingsBatch(league_id, season_id, "league", "", games)
        IN  IF SortRaises(AggValues(AggLoop(games, Len(games))))
            THEN /\ lastOp' = Raised("league_standings", "TypeError")
                 /\ UNCHANGED <<fixtures, seasons, standings, knockout_ties, points_pace>>
            ELSE \/ /\ standings' = UpsertStandings(standings, batch)
                    /\ lastOp' = [op |-> "league_standings", league_id |-> league_id,
                                  season_id |-> season_id, read |-> order, batch |-> batch]
                    /\ UNCHANGED <<fixtures, seasons, knockout_ties, points_pace>>
                 \/ /\ \E r \in batch : r.team_id = Null
                    /\ lastOp' = Raised("league_standings", "IntegrityError")
                    /\ UNCHANGED <<fixtures, seasons, standings, knockout_ties, points_pace>>

\* The rows the SELECT of build_euro_phase_standings_for_season_db matches.
EuroStandingsSelect(league_id, season_id) ==
    {fid \in DOMAIN fixtures :
        /\ fixtures[fid].league_id = league_id
        /\ fixtures[fid].season_id = season_id
        /\ fixtures[fid].status = "past"
        /\ fixtures[fid].stage_type_id = STAGE_TYPE_GROUP}

\* f"Group {gid}"
FormatGroup(gid) == IF gid = 1 THEN "Group 1" ELSE "Group 2"

\* COALESCE(g.name, '') of the LEFT JOIN, then gname.strip() or f"Group {gid}".
GroupLabel(gid) ==
    IF gid \in DOMAIN StageGroups THEN StageGroups[gid] ELSE FormatGroup(gid)

\* The phase and group label a fixture of the Europe SELECT falls into.
EuroBucket(g) ==
    IF g.group_id = Null THEN <<"league_phase", "">>
    ELSE <<"group", GroupLabel(g.group_id)>>

\* The games of one bucket, in the order read.
RECURSIVE BucketGames(_, _, _)
BucketGames(games, n, bucket) ==
    IF n = 0 THEN <<>>
    ELSE IF EuroBucket(games[n]) = bucket
         THEN Append(BucketGames(games, n - 1, bucket), games[n])
         ELSE BucketGames(games, n - 1, bucket)

\* build_euro_phase_standings_for_season_db(league_id, season_id)
BuildEuroStandings(league_id, season_id) ==
    \E order \in OrderedAsc(EuroStandingsSelect(league_id, season_id)) :
        LET games == GamesRead(order)
            buckets == {EuroBucket(games[i]) : i \in 1..Len(games)}
            batch == UNION {StandingsBatch(league_id, season_id, b[1], b[2],
                                           BucketGames(games, Len(games), b)) : b \in buckets}
        IN  /\ standings' = UpsertStandings(standings, batch)
            /\ lastOp' = [op |-> "euro_standings", league_id |-> league_id,
                          season_id |-> season_id, read |-> order, batch |-> batch]
            /\ UNCHANGED <<fixtures, seasons, knockout_ties, points_pace>>


(***************************************************************************)
(*       loaders/standings_loader.py: build_knockout_brackets_for_season   *)
(***************************************************************************)

\* The round names of the model and what the SELECT's LIKE patterns and
\* _normalize_knockout_round make of them.
KnockoutRoundNames == {"Round of 16", "1/8 Finals", "Quarter-finals", "Semi-finals", "Final"}

\* LOWER(round_name) LIKE 'round of 16%' OR ... OR LOWER(round_name) = 'final' ...
IsKnockoutRound(name) == name \in KnockoutRoundNames

NormalizeKnockoutRound(name) ==
    IF name \in {"Round of 16", "1/8 Finals"} THEN "Round of 16" ELSE name

\* re.search(r"(\d{4})\s*[/\-]", name) on the season names of the model.
NameStartYear(name) ==
    IF name = "2020/2021" THEN 2020
    ELSE IF name = "2021/2022" THEN 2021
    ELSE Null

\* start_year of lines 281-293; starting_at is kept as its year.
SeasonStartYear(season_id) ==
    IF season_id \notin DOMAIN seasons THEN Null
    ELSE IF NameStartYear(seasons[season_id].name) # Null
         THEN NameStartYear(seasons[season_id].name)
    ELSE seasons[season_id].starting_at

\* league_id in (2, 5, 2286) and (start_year is not None and start_year <= 2020)
AwayGoalsRuleApplies(league_id, start_year) ==
    /\ league_id \in {2, 5, 2286}
    /\ start_year # Null
    /\ start_year <= 2020

KnockoutSelect(league_id, season_id) ==
    {fid \in DOMAIN fixtures :
        /\ fixtures[fid].league_id = league_id
        /\ fixtures[fid].season_id = season_id
        /\ fixtures[fid].status = "past"
        /\ IsKnockoutRound(fixtures[fid].round_name)}

\* t1, t2 = (h, a) if h < a else (a, h)
PairOf(h, a) == IF h < a THEN <<h, a>> ELSE <<a, h>>

\* The key a fixture is grouped under: (rname, t1, t2).
GroupKey(fid) ==
    LET pair == PairOf(fixtures[fid].home_team_id, fixtures[fid].away_team_id)
    IN  <<NormalizeKnockoutRound(fixtures[fid].round_name), pair[1], pair[2]>>

\* COALESCE(leg_number, 1)
LegNumber(fid) == IF fixtures[fid].leg_number = Null THEN 1 ELSE fixtures[fid].leg_number

\* The sort key (starting_at, leg_number, fixture_id) compared.
LegBefore(f, g) ==
    \/ StartingAt(f) < StartingAt(g)
    \/ StartingAt(f) = StartingAt(g) /\ LegNumber(f) < LegNumber(g)
    \/ StartingAt(f) = StartingAt(g) /\ LegNumber(f) = LegNumber(g) /\ f < g

\* games.sort(key=...): the fixture ids of one tie in leg order.
SortedLegs(ids) ==
    CHOOSE p \in Perms(ids) : \A i \in 1..(Len(p) - 1) : LegBefore(p[i], p[i + 1])

\* x or 0
OrZero(x) == IF x = Null THEN 0 ELSE x

\* g1 and g2 of one leg: the goals of team1 and of team2.
LegGoals1_Swapped(g, t1) ==
    OrZero(IF g.home_team_id = t1 THEN g.away_score ELSE g.home_score)

LegGoals1(g, t1) ==
    OrZero(IF g.home_team_id = t1 THEN g.home_score ELSE g.away_score)

LegGoals2(g, t1) ==
    OrZero(IF g.home_team_id = t1 THEN g.away_score ELSE g.home_score)

\* if (p_h is not None) or (p_a is not None)
HasPenaltyScore(g) == g.home_penalty_score # Null \/ g.away_penalty_score # Null

NoTally == [agg1 |-> 0, agg2 |-> 0, away1 |-> 0, away2 |-> 0, last_pen_game |-> Null]

\* The body of the loop of lines 331-348 for one leg.
TallyLeg(acc, g, t1, rule) ==
    LET team1_home == g.home_team_id = t1
        g1 == LegGoals1(g, t1)
        g2 == LegGoals2(g, t1)
    IN  [agg1 |-> acc.agg1 + g1,
         agg2 |-> acc.agg2 + g2,
         away1 |-> IF rule /\ ~team1_home THEN acc.away1 + g1 ELSE acc.away1,
         away2 |-> IF rule /\ team1_home THEN acc.away2 + g2 ELSE acc.away2,
         last_pen_game |-> IF HasPenaltyScore(g) THEN g.fixture_id ELSE acc.last_pen_game]

RECURSIVE Tally(_, _, _, _)
Tally(legs, n, t1, rule) ==
    IF n = 0 THEN NoTally
    ELSE TallyLeg(Tally(legs, n - 1, t1, rule), Fx(legs[n]), t1, rule)

\* Lines 360-366: the winner by the penalty score of last_pen_game.
PenaltyWinner(g, t1, t2) ==
    LET pen1 == OrZero(IF g.home_team_id = t1 THEN g.home_penalty_score ELSE g.away_penalty_score)
        pen2 == OrZero(IF g.home_team_id = t1 THEN g.away_penalty_score ELSE g.home_penalty_score)
    IN  IF pen1 # pen2 THEN (IF pen1 > pen2 THEN t1 ELSE t2) ELSE Null

\* A chain that asks the penalty score before the away goals.
DecideWinner_PenaltiesFirst(tally, t1, t2, rule) ==
    IF tally.agg1 # tally.agg2
    THEN (IF tally.agg1 > tally.agg2 THEN t1 ELSE t2)
    ELSE IF tally.last_pen_game # Null
    THEN PenaltyWinner(Fx(tally.last_pen_game), t1, t2)
    ELSE IF rule /\ tally.away1 # tally.away2
    THEN (IF tally.away1 > tally.away2 THEN t1 ELSE t2)
    ELSE Null

\* Lines 354-366: aggregate, then away goals, then penalties.
DecideWinner(tally, t1, t2, rule) ==
    IF tally.agg1 # tally.agg2
    THEN (IF tally.agg1 > tally.agg2 THEN t1 ELSE t2)
    ELSE IF rule /\ tally.away1 # tally.away2
    THEN (IF tally.away1 > tally.away2 THEN t1 ELSE t2)
    ELSE IF tally.last_pen_game # Null
    THEN PenaltyWinner(Fx(tally.last_pen_game), t1, t2)
    ELSE Null

\* The row build_knockout_brackets_for_season appends for one tie.
TieRow(league_id, season_id, key, ids) ==
    LET legs == SortedLegs(ids)
        rule == AwayGoalsRuleApplies(league_id, SeasonStartYear(season_id))
        tally == Tally(legs, Len(legs), key[2], rule)
        l1 == Fx(legs[1])
        two == Len(legs) >= 2
        l2 == Fx(legs[Len(legs)])
    IN  [league_id |-> league_id, season_id |-> season_id, round_name |-> key[1],
         team1_id |-> key[2], team2_id |-> key[3],
         leg1_fixture_id |-> l1.fixture_id,
         leg1_home_team_id |-> l1.home_team_id, leg1_away_team_id |-> l1.away_team_id,
         leg1_home_score |-> l1.home_score, leg1_away_score |-> l1.away_score,
         leg2_fixture_id |-> IF two THEN l2.fixture_id ELSE Null,
         leg2_home_team_id |-> IF two THEN l2.home_team_id ELSE Null,
         leg2_away_team_id |-> IF two THEN l2.away_team_id ELSE Null,
         leg2_home_score |-> IF two THEN l2.home_score ELSE Null,
         leg2_away_score |-> IF two THEN l2.away_score ELSE Null,
         aggregate_team1 |-> tally.agg1, aggregate_team2 |-> tally.agg2,
         winner_team_id |-> DecideWinner(tally, key[2], key[3], rule)]

\* The unique key of table knockout_ties.
TieKey(r) == <<r.league_id, r.season_id, r.round_name, r.team1_id, r.team2_id>>

\* SQL_UPSERT_TIE over a batch: every column, winner_team_id included, takes
\* the value of the batch's row.
UpsertTies(table, batch) ==
    {r \in table : \A b \in batch : TieKey(b) # TieKey(r)} \cup batch

\* build_knockout_brackets_for_season(league_id, season_id)
BuildKnockoutBrackets(league_id, season_id) ==
    LET rows == KnockoutSelect(league_id, season_id)
        keys == {GroupKey(fid) : fid \in rows}
        batch == {TieRow(league_id, season_id, k, {fid \in rows : GroupKey(fid) = k}) : k \in keys}
    IN  IF \E fid \in rows : NullTeam(fid)
        THEN \* h < a with None raises TypeError before anything is written
             /\ lastOp' = Raised("knockout_brackets", "TypeError")
             /\ UNCHANGED <<fixtures, seasons, standings, knockout_ties, points_pace>>
        ELSE /\ knockout_ties' = UpsertTies(knockout_ties, batch)
             /\ lastOp' = [op |-> "knockout_brackets", league_id |-> league_id,
                           season_id |-> season_id, batch |-> batch]
             /\ UNCHANGED <<fixtures, seasons, standings, points_pace>>

(***************************************************************************)
(*          loaders/big5_bootstrap.py: finalize_knockout_winners           *)
(***************************************************************************)

\* The rows of the three UPDATEs share this part of their WHERE clause.
Undecided(kt) == kt.winner_team_id = Null /\ kt.aggregate_team1 = kt.aggregate_team2

\* CASE WHEN home_penalty_score > away_penalty_score THEN home_team_id
\*      WHEN home_penalty_score < away_penalty_score THEN away_team_id
\*      ELSE kt.winner_team_id END
PenaltyCase(kt, f) ==
    IF f.home_penalty_score > f.away_penalty_score THEN f.home_team_id
    ELSE IF f.home_penalty_score < f.away_penalty_score THEN f.away_team_id
    ELSE kt.winner_team_id

HasPenaltyPair(f) == f.home_penalty_score # Null /\ f.away_penalty_score # Null

\* sql_pen_leg2 on one row.
PenLeg2(kt) ==
    IF /\ Undecided(kt)
       /\ kt.leg2_fixture_id # Null
       /\ kt.leg2_fixture_id \in DOMAIN fixtures
       /\ HasPenaltyPair(fixtures[kt.leg2_fixture_id])
    THEN [kt EXCEPT !.winner_team_id = PenaltyCase(kt, fixtures[kt.leg2_fixture_id])]
    ELSE kt

\* sql_pen_single on one row.
PenSingle(kt) ==
    IF /\ Undecided(kt)
       /\ kt.leg2_fixture_id = Null
       /\ kt.leg1_fixture_id \in DOMAIN fixtures
       /\ HasPenaltyPair(fixtures[kt.leg1_fixture_id])
    THEN [kt EXCEPT !.winner_team_id = PenaltyCase(kt, fixtures[kt.leg1_fixture_id])]
    ELSE kt

\* CASE WHEN l1.away_team_id = team THEN l1.away_score
\*      WHEN l2.away_team_id = team THEN l2.away_score ELSE 0 END
SqlAwayGoals(l1, l2, team) ==
    IF l1.away_team_id = team THEN l1.away_score
    ELSE IF l2.away_team_id = team THEN l2.away_score
    ELSE 0

\* sql_away_goals on one row; a comparison with NULL is not true.
AwayGoals(kt) ==
    IF /\ Undecided(kt)
       /\ kt.leg1_fixture_id # Null /\ kt.leg2_fixture_id # Null
       /\ kt.leg1_fixture_id \in DOMAIN fixtures
       /\ kt.leg2_fixture_id \in DOMAIN fixtures
       /\ kt.season_id \in DOMAIN seasons
       /\ kt.league_id \in {2, 5}
       /\ seasons[kt.season_id].starting_at # Null
       /\ seasons[kt.season_id].starting_at <= 2020
    THEN LET l1 == fixtures[kt.leg1_fixture_id]
             l2 == fixtures[kt.leg2_fixture_id]
             a1 == SqlAwayGoals(l1, l2, kt.team1_id)
             a2 == SqlAwayGoals(l1, l2, kt.team2_id)
         IN  IF a1 = Null \/ a2 = Null THEN kt
             ELSE IF a1 > a2 THEN [kt EXCEPT !.winner_team_id = kt.team1_id]
             ELSE IF a1 < a2 THEN [kt EXCEPT !.winner_team_id = kt.team2_id]
             ELSE kt
    ELSE kt

\* finalize_knockout_winners(): the three UPDATEs, one after the other.
FinalizeKnockoutWinners ==
    /\ knockout_ties' = {AwayGoals(PenSingle(PenLeg2(kt))) : kt \in knockout_ties}
    /\ lastOp' = [op |-> "finalize_knockout_winners",
                  filled |-> {TieKey(kt) : kt \in {k \in knockout_ties :
                                  AwayGoals(PenSingle(PenLeg2(k))) # k}}]
    /\ UNCHANGED <<fixtures, seasons, standings, points_pace>>

(***************************************************************************)
(*          SpecTable: the aggregator over a given set of fixtures         *)
(***************************************************************************)

Times == {1, 2}

\* The (league, season) scopes of the aggregation runs.
BIG5_SCOPE == [league_id |-> 8, season_id |-> 10]
EURO_SCOPE == [league_id |-> 2, season_id |-> 20]

\* Where a fixture sits: a domestic league fixture, a group-stage fixture of
\* group 1, a league-phase fixture (group stage without group) and a fixture
\* of a knock-out stage.
TablePlaces ==
    {[league_id |-> 8, season_id |-> 10, competition_type |-> "league",
      stage_type_id |-> Null, group_id |-> Null],
     [league_id |-> 2, season_id |-> 20, competition_type |-> "europe",
      stage_type_id |-> STAGE_TYPE_GROUP, group_id |-> 1],
     [league_id |-> 2, season_id |-> 20, competition_type |-> "europe",
      stage_type_id |-> STAGE_TYPE_GROUP, group_id |-> Null],
     [league_id |-> 2, season_id |-> 20, competition_type |-> "europe",
      stage_type_id |-> STAGE_TYPE_KNOCK_OUT, group_id |-> Null]}

\* Status and regulation score: the completed results over {0, 1} goals, and
\* fixtures that are not completed (live with a current score, past without
\* a score, past with one side's score only).
TableStates ==
    {[status |-> "past", home_score |-> h, away_score |-> a] : h, a \in {0, 1}}
    \cup {[status |-> "live", home_score |-> 1, away_score |-> 0],
          [status |-> "past", home_score |-> Null, away_score |-> Null],
          [status |-> "past", home_score |-> 1, away_score |-> Null]}

TableSides ==
    {[home_team_id |-> 1, away_team_id |-> 2], [home_team_id |-> 2, away_team_id |-> 1],
     [home_team_id |-> 1, away_team_id |-> 3], [home_team_id |-> 3, away_team_id |-> 1]}

TableFeed ==
    {p @@ st @@ sd @@ [starting_at |-> t, round_name |-> "Matchweek 1", leg_number |-> Null,
                       home_penalty_score |-> Null, away_penalty_score |-> Null] :
        p \in TablePlaces, st \in TableStates, sd \in TableSides, t \in Times}

TableFixtureIds == {1, 2}

NoSeasons == <<>>

TableInit ==
    /\ \E ids \in SUBSET TableFixtureIds : fixtures \in [ids -> TableFeed]
    /\ seasons = NoSeasons
    /\ standings = {}
    /\ knockout_ties = {}
    /\ points_pace = {}
    /\ lastOp = [op |-> "init"]
    /\ ClientIdle
    /\ RunIdle

TableNext ==
    \/ BuildLeagueStandings(BIG5_SCOPE.league_id, BIG5_SCOPE.season_id) /\ UNCHANGED <<clientVars, runVars>>
    \/ BuildEuroStandings(EURO_SCOPE.league_id, EURO_SCOPE.season_id) /\ UNCHANGED <<clientVars, runVars>>

SpecTable == TableInit /\ [][TableNext]_vars


(***************************************************************************)
(*                    standings: properties (SpecTable)                    *)
(***************************************************************************)

\* A completed fixture: status 'past' with both regulation scores.
Completed(fid) ==
    /\ fixtures[fid].status = "past"
    /\ fixtures[fid].home_score # Null
    /\ fixtures[fid].away_score # Null

Plays(fid, tid) ==
    fixtures[fid].home_team_id = tid \/ fixtures[fid].away_team_id = tid

GoalsFor(fid, tid) ==
    IF fixtures[fid].home_team_id = tid THEN fixtures[fid].home_score
    ELSE fixtures[fid].away_score

GoalsAgainst(fid, tid) ==
    IF fixtures[fid].home_team_id = tid THEN fixtures[fid].away_score
    ELSE fixtures[fid].home_score

RECURSIVE SumGoalsFor(_, _)
SumGoalsFor(S, tid) ==
    IF S = {} THEN 0
    ELSE LET x == CHOOSE y \in S : TRUE IN GoalsFor(x, tid) + SumGoalsFor(S \ {x}, tid)

RECURSIVE SumGoalsAgainst(_, _)
SumGoalsAgainst(S, tid) ==
    IF S = {} THEN 0
    ELSE LET x == CHOOSE y \in S : TRUE IN GoalsAgainst(x, tid) + SumGoalsAgainst(S \ {x}, tid)

\* The completed fixtures of the table a standings row belongs to.
TableFixtures(r) ==
    {fid \in DOMAIN fixtures :
        /\ Completed(fid)
        /\ fixtures[fid].league_id = r.league_id
        /\ fixtures[fid].season_id = r.season_id
        /\ r.phase = "group" =>
              /\ fixtures[fid].stage_type_id = STAGE_TYPE_GROUP
              /\ fixtures[fid].group_id # Null
              /\ GroupLabel(fixtures[fid].group_id) = r.group_name
        /\ r.phase = "league_phase" =>
              /\ fixtures[fid].stage_type_id = STAGE_TYPE_GROUP
              /\ fixtures[fid].group_id = Null}

\* The completed fixtures of the row's table that the row's team played.
TeamFixtures(r) == {fid \in TableFixtures(r) : Plays(fid, r.team_id)}

AggregationRan == lastOp.op \in {"league_standings", "euro_standings"}

SameTable(a, b) ==
    /\ a.league_id = b.league_id /\ a.season_id = b.season_id
    /\ a.phase = b.phase /\ a.group_name = b.group_name

\* a is ranked before b by the tie-break chain of the specification.
RankedBefore(a, b) ==
    \/ a.points > b.points
    \/ a.points = b.points /\ a.goal_diff > b.goal_diff
    \/ a.points = b.points /\ a.goal_diff = b.goal_diff /\ a.goals_for > b.goals_for
    \/ /\ a.points = b.points /\ a.goal_diff = b.goal_diff /\ a.goals_for = b.goals_for
       /\ a.team_id < b.team_id

\* C4: in every table an aggregation run produces, whatever the order the
\* fixtures were read in, a row's position is 1 + the number of rows of its
\* table that the chain (points desc, goal difference desc, goals-for desc,
\* team id asc) ranks before it; so positions are 1..n and any row listed
\* before another is ranked before it by the chain.
C4_RankOrder ==
    AggregationRan =>
        \A r \in lastOp.batch :
            /\ r.position =
                  1 + Cardinality({b \in lastOp.batch : SameTable(b, r) /\ RankedBefore(b, r)})
            /\ \A b \in lastOp.batch :
                  (SameTable(b, r) /\ b.position < r.position) => RankedBefore(b, r)

\* A produced table in which goals-for decides between two rows level on
\* points and goal difference.
C4_Witness ==
    /\ AggregationRan
    /\ \E a, b \in lastOp.batch :
          /\ SameTable(a, b) /\ a.position < b.position /\ a.team_id > b.team_id
          /\ a.points = b.points /\ a.goal_diff = b.goal_diff /\ a.goals_for > b.goals_for

Won(fid, tid)   == GoalsFor(fid, tid) > GoalsAgainst(fid, tid)
Drawn(fid, tid) == GoalsFor(fid, tid) = GoalsAgainst(fid, tid)
Lost(fid, tid)  == GoalsFor(fid, tid) < GoalsAgainst(fid, tid)

\* C5: every row an aggregation run produces has points = 3*won + draw and
\* goal_diff = goals_for - goals_against, and its counts and goals are those
\* of exactly the completed fixtures of its table in which its team is home
\* or away; every team with such a fixture has a row.
C5_PointsAndGoals ==
    AggregationRan =>
        /\ \A r \in lastOp.batch :
            LET mine == TeamFixtures(r)
            IN  /\ r.points = 3 * r.won + r.draw
                /\ r.goal_diff = r.goals_for - r.goals_against
                /\ r.matches_played = Cardinality(mine)
                /\ r.won  = Cardinality({fid \in mine : Won(fid, r.team_id)})
                /\ r.draw = Cardinality({fid \in mine : Drawn(fid, r.team_id)})
                /\ r.lost = Cardinality({fid \in mine : Lost(fid, r.team_id)})
                /\ r.goals_for = SumGoalsFor(mine, r.team_id)
                /\ r.goals_against = SumGoalsAgainst(mine, r.team_id)
                /\ mine # {}
        /\ \A r \in lastOp.batch : \A fid \in TableFixtures(r) :
              \A tid \in {fixtures[fid].home_team_id, fixtures[fid].away_team_id} :
                  \E q \in lastOp.batch : SameTable(q, r) /\ q.team_id = tid

\* A produced row of a team with a win and a draw, next to a fixture of the
\* same scope that is not completed.
C5_Witness ==
    /\ AggregationRan
    /\ \E r \in lastOp.batch : r.won = 1 /\ r.draw = 1 /\ r.points = 4
    /\ \E r \in lastOp.batch : r.lost = 1 /\ r.goals_against = 1 /\ r.goal_diff = 0 - 1

\* The forms the specification allows for a row: the results of the last
\* min(5, n) of the team's completed fixtures, oldest first, for any way of
\* ordering fixtures that start at the same time.
ChronologicalForms(r) ==
    {LastN([i \in 1..Len(p) |-> ResultForTeam(Fx(p[i]), r.team_id)], FormLength) :
        p \in OrderedAsc(TeamFixtures(r))}

\* C9: in every table an aggregation run produces (league, group and
\* league_phase alike) a row's form is the W/D/L results of the team's most
\* recent min(5, n) completed matches, oldest first.
C9_FormOldestFirst ==
    AggregationRan => \A r \in lastOp.batch : r.last5_form \in ChronologicalForms(r)

\* The same statement about the tables of build_league_standings_for_season
\* alone.
LeagueFormOldestFirst ==
    lastOp.op = "league_standings" =>
        \A r \in lastOp.batch : r.last5_form \in ChronologicalForms(r)


(***************************************************************************)
(*        SpecTie: the tie resolver over a given set of fixtures           *)
(*                                                                         *)
(* The fixtures of one round between teams 1 and 2 are given; the season   *)
(* row and the competition vary.  build_knockout_brackets_for_season and   *)
(* finalize_knockout_winners run in any order.                             *)
(***************************************************************************)

\* League 2 is gated for the away-goals rule, league 24 is a domestic cup.
TieLeagues == {2, 24}

TieSeason == EURO_SCOPE.season_id

\* A season before and one after the rule's end, and one whose name carries
\* no year.
TieSeasonRows ==
    {[name |-> "2020/2021", starting_at |-> 2020],
     [name |-> "2021/2022", starting_at |-> 2021],
     [name |-> "Season", starting_at |-> 2020]}

TieSides ==
    {[home_team_id |-> 1, away_team_id |-> 2], [home_team_id |-> 2, away_team_id |-> 1]}

TieScores == {[home_score |-> h, away_score |-> a] : h, a \in {0, 1}}

NoShootout == [home_penalty_score |-> Null, away_penalty_score |-> Null]

TieShootouts ==
    {NoShootout,
     [home_penalty_score |-> 4, away_penalty_score |-> 3],
     [home_penalty_score |-> 3, away_penalty_score |-> 4]}

\* Fixtures 1 and 2 are played at time 1 and may have gone to a shootout;
\* fixture 3 is a further leg of the same round, before or after them.
TieFeed(fid, league_id) ==
    IF fid = 3
    THEN {sd @@ sc @@ NoShootout @@
          [league_id |-> league_id, season_id |-> TieSeason, competition_type |-> "europe",
           stage_type_id |-> STAGE_TYPE_KNOCK_OUT, group_id |-> Null, status |-> "past",
           round_name |-> "1/8 Finals", leg_number |-> Null, starting_at |-> t] :
            sd \in TieSides, sc \in TieScores, t \in {0, 2}}
    ELSE {sd @@ sc @@ pn @@
          [league_id |-> league_id, season_id |-> TieSeason, competition_type |-> "europe",
           stage_type_id |-> STAGE_TYPE_KNOCK_OUT, group_id |-> Null, status |-> "past",
           round_name |-> "Round of 16", leg_number |-> Null, starting_at |-> 1] :
            sd \in TieSides, sc \in TieScores, pn \in TieShootouts}

TieFixtureIds == {1, 2, 3}

TieFixtureTables(league_id) ==
    UNION {{f \in [ids -> UNION {TieFeed(fid, league_id) : fid \in ids}] :
               \A fid \in ids : f[fid] \in TieFeed(fid, league_id)} :
           ids \in SUBSET TieFixtureIds}

TieInit ==
    /\ \E league_id \in TieLeagues, row \in TieSeasonRows :
          /\ fixtures \in TieFixtureTables(league_id)
          /\ seasons = (TieSeason :> ([league_id |-> league_id] @@ row))
    /\ standings = {}
    /\ knockout_ties = {}
    /\ points_pace = {}
    /\ lastOp = [op |-> "init"]
    /\ ClientIdle
    /\ RunIdle

TieNext ==
    \/ \E league_id \in TieLeagues :
          BuildKnockoutBrackets(league_id, TieSeason) /\ UNCHANGED <<clientVars, runVars>>
    \/ FinalizeKnockoutWinners /\ UNCHANGED <<clientVars, runVars>>

SpecTie == TieInit /\ [][TieNext]_vars


(***************************************************************************)
(*                     Claims about the tie resolver                       *)
(***************************************************************************)

\* The completed knockout fixtures of the row's competition, season and round
\* between the row's two teams: the legs of the tie.
TieLegs(kt) ==
    {fid \in DOMAIN fixtures :
        /\ fixtures[fid].league_id = kt.league_id
        /\ fixtures[fid].season_id = kt.season_id
        /\ fixtures[fid].status = "past"
        /\ IsKnockoutRound(fixtures[fid].round_name)
        /\ NormalizeKnockoutRound(fixtures[fid].round_name) = kt.round_name
        /\ {fixtures[fid].home_team_id, fixtures[fid].away_team_id} = {kt.team1_id, kt.team2_id}}

\* The goals of a team in one leg; a missing score counts as no goal.
TeamGoals(fid, team) ==
    LET g == IF fixtures[fid].home_team_id = team
             THEN fixtures[fid].home_score ELSE fixtures[fid].away_score
    IN  IF g = Null THEN 0 ELSE g

RECURSIVE SumTeamGoals(_, _)
SumTeamGoals(S, team) ==
    IF S = {} THEN 0
    ELSE LET fid == CHOOSE x \in S : TRUE
         IN  TeamGoals(fid, team) + SumTeamGoals(S \ {fid}, team)

\* The goals a team scored in the legs it played away.
TotalAwayGoals(kt, team) ==
    SumTeamGoals({fid \in TieLegs(kt) : fixtures[fid].away_team_id = team}, team)

Gated(kt) ==
    /\ kt.league_id \in {2, 5, 2286}
    /\ SeasonStartYear(kt.season_id) # Null
    /\ SeasonStartYear(kt.season_id) <= 2020

\* The legs of the tie that carry a shootout score.
ShootoutLegs(kt) ==
    {fid \in TieLegs(kt) : fixtures[fid].home_penalty_score # Null
                            \/ fixtures[fid].away_penalty_score # Null}

\* The last of them in the order (start time, leg number, fixture id).
LastShootoutLeg(kt) ==
    CHOOSE fid \in ShootoutLegs(kt) : \A o \in ShootoutLegs(kt) : o = fid \/ LegBefore(o, fid)

ShootoutScore(fid, team) ==
    LET p == IF fixtures[fid].home_team_id = team
             THEN fixtures[fid].home_penalty_score ELSE fixtures[fid].away_penalty_score
    IN  IF p = Null THEN 0 ELSE p

\* The team with the higher shootout score, Null when there is no shootout or
\* the scores are equal.
ShootoutWinner(kt) ==
    IF ShootoutLegs(kt) = {} THEN Null
    ELSE LET fid == LastShootoutLeg(kt)
         IN  IF ShootoutScore(fid, kt.team1_id) > ShootoutScore(fid, kt.team2_id) THEN kt.team1_id
             ELSE IF ShootoutScore(fid, kt.team1_id) < ShootoutScore(fid, kt.team2_id) THEN kt.team2_id
             ELSE Null

\* C6: in every stored tie row the two aggregates are the sums, over all legs
\* of the tie, of team1's and of team2's goals, the side being determined leg
\* by leg; when the aggregates differ the winner is the team with the higher
\* aggregate.
C6_AggregateDecides ==
    \A kt \in knockout_ties :
        /\ kt.aggregate_team1 = SumTeamGoals(TieLegs(kt), kt.team1_id)
        /\ kt.aggregate_team2 = SumTeamGoals(TieLegs(kt), kt.team2_id)
        /\ kt.aggregate_team1 > kt.aggregate_team2 => kt.winner_team_id = kt.team1_id
        /\ kt.aggregate_team1 < kt.aggregate_team2 => kt.winner_team_id = kt.team2_id

\* A build has just written a tie of three legs, team1 at home in one and
\* away in another, that team2 wins on aggregate.
C6_Witness ==
    /\ lastOp.op = "knockout_brackets"
    /\ \E kt \in lastOp.batch :
          /\ kt \in knockout_ties
          /\ Cardinality(TieLegs(kt)) = 3
          /\ \E f, g \in TieLegs(kt) : /\ fixtures[f].home_team_id = kt.team1_id
                                       /\ fixtures[g].home_team_id = kt.team2_id
          /\ kt.aggregate_team1 = 1
          /\ kt.aggregate_team2 = 2
          /\ kt.winner_team_id = kt.team2_id

C8_ShootoutOrNoWinner ==
    \A kt \in knockout_ties :
        (/\ kt.aggregate_team1 = kt.aggregate_team2
         /\ \/ ~Gated(kt)
            \/ TotalAwayGoals(kt, kt.team1_id) = TotalAwayGoals(kt, kt.team2_id))
        => kt.winner_team_id = ShootoutWinner(kt)

\* The same statement about the rows as build_knockout_brackets_for_season
\* leaves them, before finalize_knockout_winners runs.
ShootoutOrNoWinnerAfterBuild ==
    lastOp.op = "knockout_brackets" =>
        \A kt \in lastOp.batch :
            (/\ kt.aggregate_team1 = kt.aggregate_team2
             /\ \/ ~Gated(kt)
                \/ TotalAwayGoals(kt, kt.team1_id) = TotalAwayGoals(kt, kt.team2_id))
            => kt.winner_team_id = ShootoutWinner(kt)


(***************************************************************************)
(*     SpecRound: one knockout round while its fixtures are ingested       *)
(*                                                                         *)
(* The fixtures ingest upserts the two fixtures of a Champions League      *)
(* semi-final of season 2020/2021 again and again as the provider reports  *)
(* them; the tie resolver and the winner backfill run in between.          *)
(***************************************************************************)

RoundSeason ==
    (EURO_SCOPE.season_id :>
        [league_id |-> EURO_SCOPE.league_id, name |-> "2020/2021", starting_at |-> 2020])

\* What the provider reports of a fixture: not yet played, or played with a
\* result over {0, 1} goals, with or without a shootout.
RoundStates ==
    {[status |-> "upcoming", home_score |-> Null, away_score |-> Null] @@ NoShootout}
    \cup {[status |-> "past", home_score |-> sc[1], away_score |-> sc[2]] @@ pn :
             sc \in {<<0, 0>>, <<1, 0>>, <<0, 1>>},
             pn \in {NoShootout, [home_penalty_score |-> 4, away_penalty_score |-> 3]}}

RoundFeed ==
    {sd @@ st @@
     [league_id |-> EURO_SCOPE.league_id, season_id |-> EURO_SCOPE.season_id,
      competition_type |-> "europe", stage_type_id |-> STAGE_TYPE_KNOCK_OUT,
      group_id |-> Null, round_name |-> "Semi-finals", leg_number |-> Null,
      starting_at |-> 1] :
        sd \in TieSides, st \in RoundStates}

RoundFixtureIds == {1, 2}

RoundInit ==
    /\ fixtures = <<>>
    /\ seasons = RoundSeason
    /\ standings = {}
    /\ knockout_ties = {}
    /\ points_pace = {}
    /\ lastOp = [op |-> "init"]
    /\ ClientIdle
    /\ RunIdle

RoundNext ==
    \/ \E fid \in RoundFixtureIds, row \in RoundFeed :
          UpsertFixture(fid, row) /\ UNCHANGED <<clientVars, runVars>>
    \/ BuildKnockoutBrackets(EURO_SCOPE.league_id, EURO_SCOPE.season_id) /\ UNCHANGED <<clientVars, runVars>>
    \/ FinalizeKnockoutWinners /\ UNCHANGED <<clientVars, runVars>>

SpecRound == RoundInit /\ [][RoundNext]_vars

\* C1: a stored tie that has a winner keeps that winner through every step:
\* the row is still stored afterwards, with the same winner.
C1_WinnerIsKept ==
    [][\A kt \in knockout_ties :
          kt.winner_team_id # Null =>
             \E nx \in knockout_ties' :
                TieKey(nx) = TieKey(kt) /\ nx.winner_team_id = kt.winner_team_id]_vars

(***************************************************************************)
(*                       loaders/points_pace.py                            *)
(***************************************************************************)

\* CAST(REGEXP_SUBSTR(round_name, '[0-9]+') AS UNSIGNED) on the round names of
\* the model: the first run of digits, NULL when there is none.
RoundDigits(name) ==
    IF name = "Matchweek 1" THEN 1
    ELSE IF name = "Matchweek 2" THEN 2
    ELSE IF name = "Round of 16" THEN 16
    ELSE IF name = "1/8 Finals" THEN 1
    ELSE Null

\* WHERE league_id = %s AND season_id = %s AND competition_type = 'league'
\*   AND home_score IS NOT NULL AND away_score IS NOT NULL
PaceSelect(league_id, season_id) ==
    {fid \in DOMAIN fixtures :
        /\ fixtures[fid].league_id = league_id
        /\ fixtures[fid].season_id = season_id
        /\ fixtures[fid].competition_type = "league"
        /\ fixtures[fid].home_score # Null
        /\ fixtures[fid].away_score # Null}

\* ROW_NUMBER() OVER (PARTITION BY league_id, season_id ORDER BY starting_at, fixture_id)
RowNumber(ids, fid) ==
    Cardinality({o \in ids : \/ StartingAt(o) < StartingAt(fid)
                             \/ StartingAt(o) = StartingAt(fid) /\ o <= fid})

\* COALESCE(<digits of round_name>, ROW_NUMBER() ...) AS round_no
RoundNo(ids, fid) ==
    IF RoundDigits(fixtures[fid].round_name) # Null
    THEN RoundDigits(fixtures[fid].round_name)
    ELSE RowNumber(ids, fid)

\* ORDER BY round_no, starting_at, fixture_id
PaceBefore(ids, f, g) ==
    \/ RoundNo(ids, f) < RoundNo(ids, g)
    \/ RoundNo(ids, f) = RoundNo(ids, g) /\ StartingAt(f) < StartingAt(g)
    \/ RoundNo(ids, f) = RoundNo(ids, g) /\ StartingAt(f) = StartingAt(g) /\ f < g

PaceRead(ids) ==
    CHOOSE p \in Perms(ids) : \A i \in 1..(Len(p) - 1) : PaceBefore(ids, p[i], p[i + 1])

\* _calc_points, for the side the team is on.
CalcPoints(g, team_id) ==
    IF g.home_score > g.away_score THEN (IF g.home_team_id = team_id THEN 3 ELSE 0)
    ELSE IF g.home_score < g.away_score THEN (IF g.home_team_id = team_id THEN 0 ELSE 3)
    ELSE 1

\* per_team[team_id] after items.sort(key=(round_no, starting_at)): the stable
\* sort keeps the order of the SELECT, which is already sorted by that key.
PaceItems(read, team_id) ==
    SelectSeq(read, LAMBDA fid : team_id \in {fixtures[fid].home_team_id,
                                              fixtures[fid].away_team_id})

\* A round_to_latest that keeps the first fixture seen for a round.
RECURSIVE RoundToLatest_KeepFirst(_, _, _)
RoundToLatest_KeepFirst(ids, items, n) ==
    IF n = 0 THEN <<>>
    ELSE LET m == RoundToLatest_KeepFirst(ids, items, n - 1)
             fid == items[n]
             rnd == RoundNo(ids, fid)
         IN  IF rnd \notin DOMAIN m THEN UpsertById(m, rnd, fid) ELSE m

\* round_to_latest after the first n items: round_no -> fixture; an item
\* replaces the round's entry only when its date is strictly later.
RECURSIVE RoundToLatest(_, _, _)
RoundToLatest(ids, items, n) ==
    IF n = 0 THEN <<>>
    ELSE LET m == RoundToLatest(ids, items, n - 1)
             fid == items[n]
             rnd == RoundNo(ids, fid)
         IN  IF rnd \notin DOMAIN m \/ StartingAt(fid) > StartingAt(m[rnd])
             THEN UpsertById(m, rnd, fid)
             ELSE m

\* cum after the loop over sorted(round_to_latest) has passed round rnd.
RECURSIVE CumulativePoints(_, _, _)
CumulativePoints(m, team_id, rnd) ==
    IF rnd = 0 THEN 0
    ELSE CumulativePoints(m, team_id, rnd - 1)
         + (IF rnd \in DOMAIN m THEN CalcPoints(fixtures[m[rnd]], team_id) ELSE 0)

\* _rows_for_league_season(league_id, season_id)
RowsForLeagueSeason(league_id, season_id) ==
    LET ids == PaceSelect(league_id, season_id)
        read == PaceRead(ids)
        teams == UNION {{fixtures[fid].home_team_id, fixtures[fid].away_team_id} : fid \in ids}
        latest(team_id) ==
            LET items == PaceItems(read, team_id)
            IN  RoundToLatest(ids, items, Len(items))
    IN  UNION {{[league_id |-> league_id, season_id |-> season_id, team_id |-> t,
                 round_no |-> rnd, match_date |-> StartingAt(latest(t)[rnd]),
                 cumulative_points |-> CumulativePoints(latest(t), t, rnd)] :
                  rnd \in DOMAIN latest(t)} : t \in teams}

\* The unique key of table points_pace.
PaceKey(r) == <<r.league_id, r.season_id, r.team_id, r.round_no>>

\* An upsert that stores the value of the batch.
UpsertPointsPace_ValuesOnly(table, batch) ==
    {r \in table : \A b \in batch : PaceKey(b) # PaceKey(r)} \cup batch

\* SQL_UPSERT_POINTS_PACE over a batch: match_date = VALUES(match_date),
\* cumulative_points = GREATEST(cumulative_points, VALUES(cumulative_points)).
UpsertPointsPace(table, batch) ==
    {r \in table : \A b \in batch : PaceKey(b) # PaceKey(r)}
    \cup {IF \E r \in table : PaceKey(r) = PaceKey(b)
          THEN LET old == CHOOSE r \in table : PaceKey(r) = PaceKey(b)
               IN  [b EXCEPT !.cumulative_points = Max(old.cumulative_points, b.cumulative_points)]
          ELSE b : b \in batch}

BIG5_LEAGUE_IDS == {8, 82, 301, 384, 564}

\* The leading number of the season name, as SQL_SELECT_SEASONS_SINCE_1718
\* casts it: 0 when the name does not start with digits.
SeasonNameYear(name) ==
    IF name = "2016/2017" THEN 2016
    ELSE IF name = "2020/2021" THEN 2020
    ELSE IF name = "2021/2022" THEN 2021
    ELSE 0

\* SQL_SELECT_SEASONS_SINCE_1718 for one league.
SeasonsSince1718(league_id) ==
    {sid \in DOMAIN seasons :
        seasons[sid].league_id = league_id /\ SeasonNameYear(seasons[sid].name) >= 2017}

\* build_points_pace_all(): every season of every Big-5 league is computed and
\* upserted; the keys of different seasons are disjoint.  int(home_tid) of a
\* NULL team id raises TypeError: the seasons handled before that one are
\* written, the others are not.
BuildPointsPaceAll ==
    LET units == {<<lid, sid>> \in BIG5_LEAGUE_IDS \X DOMAIN seasons : sid \in SeasonsSince1718(lid)}
        raising == {u \in units : \E fid \in PaceSelect(u[1], u[2]) : NullTeam(fid)}
        batch == UNION {RowsForLeagueSeason(u[1], u[2]) : u \in units}
    IN  IF raising # {}
        THEN \E done \in SUBSET (units \ raising) :
                /\ points_pace' = UpsertPointsPace(points_pace,
                                      UNION {RowsForLeagueSeason(u[1], u[2]) : u \in done})
                /\ lastOp' = Raised("points_pace", "TypeError")
                /\ UNCHANGED <<fixtures, seasons, standings, knockout_ties>>
        ELSE /\ points_pace' = UpsertPointsPace(points_pace, batch)
             /\ lastOp' = [op |-> "points_pace", batch |-> batch]
             /\ UNCHANGED <<fixtures, seasons, standings, knockout_ties>>

(***************************************************************************)
(*     SpecPace: the pace of one league season while it is ingested        *)
(***************************************************************************)

PaceSeasons ==
    (BIG5_SCOPE.season_id :>
        [league_id |-> BIG5_SCOPE.league_id, name |-> "2020/2021", starting_at |-> 2020])

\* Fixture 1 is played at time 1 and fixture 2 at time 2, both between teams 1
\* and 2; the provider reports a fixture without a score, with a result over
\* {0, 1} goals or live with a current score, under a numbered round name or
\* an unnumbered one.
PaceStates ==
    {[status |-> "upcoming", home_score |-> Null, away_score |-> Null],
     [status |-> "live", home_score |-> 1, away_score |-> 0]}
    \cup {[status |-> "past", home_score |-> sc[1], away_score |-> sc[2]] :
             sc \in {<<0, 0>>, <<1, 0>>, <<0, 1>>}}

PaceFeed(fid) ==
    {[league_id |-> BIG5_SCOPE.league_id, season_id |-> BIG5_SCOPE.season_id,
      competition_type |-> "league", stage_type_id |-> Null, group_id |-> Null,
      home_team_id |-> 1, away_team_id |-> 2,
      status |-> st.status,
      home_score |-> st.home_score, away_score |-> st.away_score,
      round_name |-> rn, leg_number |-> Null, starting_at |-> fid,
      home_penalty_score |-> Null, away_penalty_score |-> Null] :
        st \in PaceStates,
        rn \in {"Matchweek 1", "Regular Season"}}

PaceFixtureIds == {1, 2}

PaceInit ==
    /\ fixtures = <<>>
    /\ seasons = PaceSeasons
    /\ standings = {}
    /\ knockout_ties = {}
    /\ points_pace = {}
    /\ lastOp = [op |-> "init"]
    /\ ClientIdle
    /\ RunIdle

PaceNext ==
    \/ \E fid \in PaceFixtureIds : \E row \in PaceFeed(fid) :
          UpsertFixture(fid, row) /\ UNCHANGED <<clientVars, runVars>>
    \/ BuildPointsPaceAll /\ UNCHANGED <<clientVars, runVars>>

SpecPace == PaceInit /\ [][PaceNext]_vars

\* C2: through every step each stored points-pace row stays stored under its
\* key (league, season, team, round) with cumulative points no lower than
\* before; an upsert leaves the larger of the stored and the upserted value.
C2_CumulativeNeverDecreases ==
    [][/\ \A r \in points_pace :
             \E nx \in points_pace' :
                PaceKey(nx) = PaceKey(r) /\ nx.cumulative_points >= r.cumulative_points
       /\ lastOp'.op = "points_pace" =>
             \A b \in lastOp'.batch :
                \E nx \in points_pace' :
                   /\ PaceKey(nx) = PaceKey(b)
                   /\ nx.cumulative_points >= b.cumulative_points
                   /\ (\A r \in points_pace : PaceKey(r) # PaceKey(b))
                         => nx.cumulative_points = b.cumulative_points
                   /\ \A r \in points_pace :
                         PaceKey(r) = PaceKey(b) =>
                            nx.cumulative_points \in {r.cumulative_points, b.cumulative_points}]_vars

\* A build has just upserted, for a key stored with 3 points, a row with fewer
\* points, and the 3 points are still stored.
C2_Witness ==
    /\ lastOp.op = "points_pace"
    /\ \E b \in lastOp.batch, r \in points_pace :
          /\ PaceKey(r) = PaceKey(b)
          /\ b.cumulative_points < 3
          /\ r.cumulative_points = 3


(***************************************************************************)
(*    SpecSeason: the table of one league season while it is ingested      *)
(*                                                                         *)
(* The fixtures ingest upserts the two fixtures of the season again and    *)
(* again as the provider reports them (not yet played, played, with the    *)
(* opponent the provider names); the league table is rebuilt in between.   *)
(***************************************************************************)

SeasonFeed(fid) ==
    {[league_id |-> BIG5_SCOPE.league_id, season_id |-> BIG5_SCOPE.season_id,
      competition_type |-> "league", stage_type_id |-> Null, group_id |-> Null,
      home_team_id |-> 1, away_team_id |-> opp,
      status |-> IF sc[1] = Null THEN "upcoming" ELSE "past",
      home_score |-> sc[1], away_score |-> sc[2],
      round_name |-> "Matchweek 1", leg_number |-> Null, starting_at |-> fid,
      home_penalty_score |-> Null, away_penalty_score |-> Null] :
        sc \in {<<Null, Null>>, <<0, 0>>, <<1, 0>>, <<0, 1>>},
        opp \in {2, 3}}

SeasonFixtureIds == {1, 2}

SeasonInit ==
    /\ fixtures = <<>>
    /\ seasons = PaceSeasons
    /\ standings = {}
    /\ knockout_ties = {}
    /\ points_pace = {}
    /\ lastOp = [op |-> "init"]
    /\ ClientIdle
    /\ RunIdle

SeasonNext ==
    \/ \E fid \in SeasonFixtureIds : \E row \in SeasonFeed(fid) :
          UpsertFixture(fid, row) /\ UNCHANGED <<clientVars, runVars>>
    \/ BuildLeagueStandings(BIG5_SCOPE.league_id, BIG5_SCOPE.season_id) /\ UNCHANGED <<clientVars, runVars>>

SpecSeason == SeasonInit /\ [][SeasonNext]_vars

\* The stored rows of the league table of a season.
StoredTable(league_id, season_id) ==
    {r \in standings : r.league_id = league_id /\ r.season_id = season_id /\ r.phase = "league"}

\* C3: when an aggregation run has just finished, the stored rows of its
\* scope are exactly the rows it produced: no row of a team outside the
\* computation is left, and no two stored rows share a position.
C3_FullReplace ==
    lastOp.op = "league_standings" =>
        LET stored == StoredTable(lastOp.league_id, lastOp.season_id)
        IN  /\ stored = lastOp.batch
            /\ \A a, b \in stored : a.position = b.position => a = b


(***************************************************************************)
(*                       Claims about the fetch client                     *)
(***************************************************************************)

\* The responses received so far that passed raise_for_status with a JSON body.
Successes == {i \in 1..Len(history) : history[i] = "ok"}

\* C10: whatever the provider answers and whatever ceiling max_retries >= 1
\* is configured, a call of _get issues at most max_retries requests and
\* terminates; it ends by returning or by raising; what it returns is the
\* body of the first successful response, which is the last response it
\* received; a call that used up its ceiling without a success raises.
C10_BoundedRetries ==
    /\ [](/\ Len(history) <= max_retries
          /\ pc = "done" => result.kind \in {"return", "raise"}
          /\ \A i \in Successes : result.kind = "return" /\ result.of = i /\ i = Len(history)
          /\ result.kind = "return" => result.of \in Successes
          /\ (pc = "done" /\ Successes = {}) => result.kind = "raise")
    /\ <>(pc = "done")

\* A call with ceiling 3 has received three failed responses, slept after
\* each of them and raised.
C10_Witness ==
    /\ pc = "done"
    /\ max_retries = 3
    /\ Len(history) = 3
    /\ Successes = {}
    /\ Len(sleeps) = 3
    /\ result.kind = "raise"


\* C11: a call that used up its retries on failed responses (the last of its
\* max_retries responses was a 429 or a 5xx) raises the error of that last
\* response: not the error of an earlier response, not a substitute.
C11_OriginalErrorPropagates ==
    (/\ pc = "done"
     /\ Len(history) = max_retries
     /\ history[Len(history)] \in {"429", "5xx"})
    => /\ result.kind = "raise"
       /\ result.of = Len(history)
       /\ result.error = history[Len(history)]

\* C12: a 4xx response other than 429 ends the call at once: it is the last
\* response of the call, the call has raised that response's error, and no
\* sleep follows it, whatever came before.
C12_ClientErrorRaisesAtOnce ==
    \A i \in 1..Len(history) :
        history[i] = "4xx" =>
            /\ i = Len(history)
            /\ pc = "done"
            /\ result = [kind |-> "raise", error |-> "4xx", of |-> i]
            /\ \A k \in 1..Len(sleeps) : sleeps[k].after < i

\* A call received a 429, then a 5xx, then a 4xx, and raised the 4xx after
\* the two sleeps of the retries.
C12_Witness ==
    /\ history = <<"429", "5xx", "4xx">>
    /\ Len(sleeps) = 2
    /\ result.kind = "raise"
    /\ result.of = 3


(***************************************************************************)
(*     core/sportmonks.py, core/http.py: the paginated iterators           *)
(*                                                                         *)
(* pager.pc is "request" before a page is requested, "yield" while the     *)
(* items of the last page are handed to the consumer, "ended" after the    *)
(* generator returned, "raised" after the page request raised.             *)
(***************************************************************************)

MaxPages == 3
MaxPageItems == 2

PagerKinds == {"iter_fixtures_by_season", "iter_teams_by_season", "get_paginated"}

\* A key of the response that is missing, false or true.
Flags == {"absent", "no", "yes"}

\* The pagination object the provider sends.
PageObject(flag) == [present |-> TRUE, has_more |-> flag, has_more_pages |-> "absent"]

\* The object is missing from the response.
NoObject == [present |-> FALSE, has_more |-> "absent", has_more_pages |-> "absent"]

\* The ways the provider reports whether more pages follow: in a
\* "pagination" object, in a "meta" object, or not at all.
PageSignals ==
    {[has_more |-> "absent", pagination |-> PageObject(f), meta |-> NoObject] : f \in {"no", "yes"}}
    \cup {[has_more |-> "absent", pagination |-> NoObject, meta |-> PageObject(f)] : f \in {"no", "yes"}}
    \cup {[has_more |-> "absent", pagination |-> NoObject, meta |-> NoObject]}

\* A response: the number of items under "data" and the pagination keys.
PageResponses == {[count |-> n] @@ sg : n \in 0..MaxPageItems, sg \in PageSignals}

\* dict.get(key) of an object that may be missing, as a flag.
GetFlag(obj, key) ==
    IF ~obj.present THEN "absent"
    ELSE IF key = "has_more" THEN obj.has_more
    ELSE obj.has_more_pages

\* a or b, for objects: a missing (or empty) object is falsy.
OrObject(a, b) == IF a.present THEN a ELSE b

\* has_more as each iterator reads it from the response.
HasMore(kind, obj) ==
    IF kind = "iter_fixtures_by_season"
    THEN LET pag == OrObject(obj.pagination, obj.meta)
         IN  GetFlag(pag, "has_more") = "yes" \/ GetFlag(pag, "has_more_pages") = "yes"
    ELSE IF kind = "iter_teams_by_season"
    THEN IF obj.has_more # "absent" THEN obj.has_more = "yes"
         ELSE GetFlag(obj.meta, "has_more") = "yes"
    ELSE GetFlag(obj.meta, "has_more") = "yes"

\* if not items: break -- the two iterators of core/sportmonks.py only.
BreaksOnEmptyPage_Never(kind) == FALSE

BreaksOnEmptyPage(kind) == kind # "get_paginated"

PagerStart(kind) ==
    [pc |-> "request", kind |-> kind, page |-> 1, requests |-> <<>>,
     responses |-> <<>>, yielded |-> <<>>, pos |-> 0]

LastPage == pager.responses[Len(pager.responses)]

\* The page is requested and the provider answers.
PagerFetch ==
    /\ pager.pc = "request"
    /\ pager.page <= MaxPages
    /\ \E obj \in PageResponses :
          pager' = [pager EXCEPT
                      !.requests = Append(@, pager.page),
                      !.responses = Append(@, obj),
                      !.pos = 1,
                      !.pc = IF obj.count = 0 /\ BreaksOnEmptyPage(pager.kind)
                             THEN "ended" ELSE "yield"]
    /\ UNCHANGED <<dbVars, clientVars, ingest, cache>>

\* The page is requested and the request raises (_get gave up).
PagerFetchRaises ==
    /\ pager.pc = "request"
    /\ pager.page <= MaxPages
    /\ pager' = [pager EXCEPT !.requests = Append(@, pager.page), !.pc = "raised"]
    /\ UNCHANGED <<dbVars, clientVars, ingest, cache>>

\* yield of the next item of the page.
PagerYield ==
    /\ pager.pc = "yield"
    /\ pager.pos <= LastPage.count
    /\ pager' = [pager EXCEPT !.yielded = Append(@, <<pager.page, pager.pos>>),
                              !.pos = @ + 1]
    /\ UNCHANGED <<dbVars, clientVars, ingest, cache>>

\* After the last item: has_more decides between the next page and the end.
PagerAfterPage ==
    /\ pager.pc = "yield"
    /\ pager.pos > LastPage.count
    /\ pager' = IF HasMore(pager.kind, LastPage)
                THEN [pager EXCEPT !.page = @ + 1, !.pc = "request"]
                ELSE [pager EXCEPT !.pc = "ended"]
    /\ UNCHANGED <<dbVars, clientVars, ingest, cache>>

PagerInit ==
    /\ \E kind \in PagerKinds : pager = PagerStart(kind)
    /\ ingest = Idle
    /\ cache = Idle
    /\ ClientIdle
    /\ fixtures = <<>>
    /\ seasons = <<>>
    /\ standings = {}
    /\ knockout_ties = {}
    /\ points_pace = {}
    /\ lastOp = [op |-> "init"]

PagerNext ==
    \/ PagerFetch
    \/ PagerFetchRaises
    \/ PagerYield
    \/ PagerAfterPage

SpecPager == PagerInit /\ [][PagerNext]_vars

(***************************************************************************)
(*                   Claims about the paginated iterators                  *)
(***************************************************************************)

\* The provider signalled that more pages follow.
SignalsMore(obj) ==
    \/ GetFlag(obj.pagination, "has_more") = "yes"
    \/ GetFlag(obj.meta, "has_more") = "yes"

\* The items of the first n fetched pages, in provider order.
RECURSIVE ItemsOfPages(_)
ItemsOfPages(n) ==
    IF n = 0 THEN <<>>
    ELSE ItemsOfPages(n - 1) \o [i \in 1..pager.responses[n].count |-> <<n, i>>]

IsPrefix(a, b) == Len(a) <= Len(b) /\ a = SubSeq(b, 1, Len(a))

PagesInOrder ==
    LET n == Len(pager.responses)
    IN  /\ pager.requests = [i \in 1..Len(pager.requests) |-> i]
        /\ IsPrefix(pager.yielded, ItemsOfPages(n))
        /\ n >= 1 => IsPrefix(ItemsOfPages(n - 1), pager.yielded)
        /\ pager.pc \in {"request", "ended"} => pager.yielded = ItemsOfPages(n)
        /\ \A i \in 1..(Len(pager.requests) - 1) :
              pager.responses[i].count > 0 /\ SignalsMore(pager.responses[i])
        /\ pager.pc = "ended" => (LastPage.count = 0 \/ ~SignalsMore(LastPage))

\* C13: a paginated iterator requests pages 1, 2, 3, ... consecutively; what
\* it has yielded is, in provider order and each item once, the items of the
\* fetched pages; page n+1 is requested only after every item of page n was
\* yielded and page n was non-empty and signalled more pages; and it ends only
\* after a page that is empty or does not signal more pages, so it does not
\* end while the provider keeps signalling more.
C13_PagesInOrder == PagesInOrder

\* The same statement about iter_fixtures_by_season alone.
FixturesPagesInOrder == pager.kind = "iter_fixtures_by_season" => PagesInOrder


(***************************************************************************)
(*                        Claims about re-runs                             *)
(***************************************************************************)

\* C14: a step run twice in succession on unchanged fixtures leaves every
\* persisted table as the first run left it, and the standings the two runs
\* compute are identical.
C14_RerunChangesNothing ==
    [][(/\ lastOp.op # "init"
        /\ lastOp'.op = lastOp.op
        /\ fixtures' = fixtures)
       => /\ standings' = standings
          /\ knockout_ties' = knockout_ties
          /\ points_pace' = points_pace
          /\ lastOp'.batch = lastOp.batch]_vars

\* The same statement when no team has two selected fixtures at one
\* starting time.
RerunChangesNothingDistinctTimes ==
    [][(/\ lastOp.op # "init"
        /\ lastOp'.op = lastOp.op
        /\ fixtures' = fixtures
        /\ \A f1, f2 \in DOMAIN fixtures :
              (f1 # f2 /\ fixtures[f1].starting_at = fixtures[f2].starting_at)
              => {fixtures[f1].home_team_id, fixtures[f1].away_team_id}
                 \cap {fixtures[f2].home_team_id, fixtures[f2].away_team_id} = {})
       => /\ standings' = standings
          /\ lastOp'.batch = lastOp.batch]_vars


(***************************************************************************)
(*   big5_bootstrap.py, core/db.py: the chunked ingest of fixtures         *)
(*                                                                         *)
(* ingest.pc is "run" inside upsert_domestic_via_fixtures_api, "done"      *)
(* after it returned, "failed" after upsert_many raised and "interrupted"  *)
(* after the run was stopped elsewhere.  ChunkRows stands for the 500 rows *)
(* of the flush condition.                                                 *)
(***************************************************************************)

ChunkRows == 2
MaxUpstream == 4
MaxRuns == 2

\* What the provider returns for the season, item by item: fixtures 1 and 2
\* with a home score of 0 or 1, and a fixture without starting_at.
IngestFeed ==
    {[id |-> i, starting_at |-> 1, home_score |-> h] : i \in {1, 2}, h \in {0, 1}}
    \cup {[id |-> 3, starting_at |-> Null, home_score |-> 0]}

\* The tuple rows.append(...) builds from an item.
IngestRow(fx) ==
    [fixture_id |-> fx.id,
     row |-> [league_id |-> BIG5_SCOPE.league_id, season_id |-> BIG5_SCOPE.season_id,
              competition_type |-> "league", stage_type_id |-> Null, group_id |-> Null,
              home_team_id |-> 1, away_team_id |-> 2, status |-> "past",
              home_score |-> fx.home_score, away_score |-> 0,
              round_name |-> "Matchweek 1", leg_number |-> Null,
              starting_at |-> fx.starting_at,
              home_penalty_score |-> Null, away_penalty_score |-> Null]]

\* cur.executemany(SQL_UPSERT_FIXTURE, rows); conn.commit(): the first n rows
\* written in order.
RECURSIVE WriteRows(_, _, _)
WriteRows(table, rows, n) ==
    IF n = 0 THEN table
    ELSE UpsertById(WriteRows(table, rows, n - 1), rows[n].fixture_id, rows[n].row)

\* A failed write whose first row stays in the table.
FailedWrite_FirstRowKept(table, rows) == WriteRows(table, rows, 1)

\* upsert_many when executemany or commit raises: the connection is closed
\* without a commit, the transaction is rolled back.
FailedWrite(table, rows) == table

\* A re-run that goes on where the stopped run was.
RestartPosition_Resume(next) == next

\* A re-run iterates the provider's fixtures from the first one.
RestartPosition(next) == 1

IngestStart(table, upstream) ==
    [pc |-> "run", upstream |-> upstream, next |-> 1, rows |-> <<>>, writes |-> <<>>,
     runs |-> 1, origin |-> table, start |-> table, earlier |-> 0]

\* One iteration of the loop over the provider's fixtures, the flush of a
\* full buffer included.
IngestFixture ==
    /\ ingest.pc = "run"
    /\ ingest.next <= Len(ingest.upstream)
    /\ LET fx == ingest.upstream[ingest.next]
           rows == Append(ingest.rows, IngestRow(fx))
       IN  IF fx.starting_at = Null
           THEN /\ ingest' = [ingest EXCEPT !.next = @ + 1]
                /\ fixtures' = fixtures
           ELSE IF Len(rows) >= ChunkRows
           THEN /\ fixtures' = WriteRows(fixtures, rows, Len(rows))
                /\ ingest' = [ingest EXCEPT !.next = @ + 1, !.rows = <<>>,
                                !.writes = Append(@, [rows |-> rows, ok |-> TRUE])]
           ELSE /\ ingest' = [ingest EXCEPT !.next = @ + 1, !.rows = rows]
                /\ fixtures' = fixtures
    /\ lastOp' = [op |-> "ingest_fixtures"]
    /\ UNCHANGED <<seasons, standings, knockout_ties, points_pace, clientVars, pager, cache>>

\* The iteration whose flush raises inside upsert_many.
IngestFixtureWriteFails ==
    /\ ingest.pc = "run"
    /\ ingest.next <= Len(ingest.upstream)
    /\ LET fx == ingest.upstream[ingest.next]
           rows == Append(ingest.rows, IngestRow(fx))
       IN  /\ fx.starting_at # Null
           /\ Len(rows) >= ChunkRows
           /\ fixtures' = FailedWrite(fixtures, rows)
           /\ ingest' = [ingest EXCEPT !.pc = "failed", !.rows = rows,
                           !.writes = Append(@, [rows |-> rows, ok |-> FALSE])]
    /\ lastOp' = [op |-> "ingest_fixtures"]
    /\ UNCHANGED <<seasons, standings, knockout_ties, points_pace, clientVars, pager, cache>>

\* After the loop: if rows: upsert_fixtures_rows(rows).
IngestEnd ==
    /\ ingest.pc = "run"
    /\ ingest.next > Len(ingest.upstream)
    /\ IF ingest.rows = <<>>
       THEN /\ ingest' = [ingest EXCEPT !.pc = "done"]
            /\ fixtures' = fixtures
       ELSE /\ fixtures' = WriteRows(fixtures, ingest.rows, Len(ingest.rows))
            /\ ingest' = [ingest EXCEPT !.pc = "done", !.rows = <<>>,
                            !.writes = Append(@, [rows |-> ingest.rows, ok |-> TRUE])]
    /\ lastOp' = [op |-> "ingest_fixtures"]
    /\ UNCHANGED <<seasons, standings, knockout_ties, points_pace, clientVars, pager, cache>>

\* The last write raises inside upsert_many.
IngestEndWriteFails ==
    /\ ingest.pc = "run"
    /\ ingest.next > Len(ingest.upstream)
    /\ ingest.rows # <<>>
    /\ fixtures' = FailedWrite(fixtures, ingest.rows)
    /\ ingest' = [ingest EXCEPT !.pc = "failed",
                    !.writes = Append(@, [rows |-> ingest.rows, ok |-> FALSE])]
    /\ lastOp' = [op |-> "ingest_fixtures"]
    /\ UNCHANGED <<seasons, standings, knockout_ties, points_pace, clientVars, pager, cache>>

\* The run stops between two writes (the process is stopped, or a request of
\* the iterator raises): the buffer is lost, the committed chunks stay.
IngestInterrupted ==
    /\ ingest.pc = "run"
    /\ ingest' = [ingest EXCEPT !.pc = "interrupted"]
    /\ UNCHANGED <<dbVars, clientVars, pager, cache>>

\* The same step is run again against the same provider data.
IngestRerun ==
    /\ ingest.pc \in {"failed", "interrupted"}
    /\ ingest.runs < MaxRuns
    /\ ingest' = [ingest EXCEPT !.pc = "run", !.next = RestartPosition(ingest.next),
                    !.rows = <<>>, !.writes = <<>>, !.runs = @ + 1, !.start = fixtures,
                    !.earlier = @ + Cardinality({k \in 1..Len(ingest.writes) : ingest.writes[k].ok})]
    /\ UNCHANGED <<dbVars, clientVars, pager, cache>>

\* The fixtures table before the run: empty, or holding fixture 1 as an
\* earlier ingest stored it.
IngestTables == {<<>>, (1 :> IngestRow([id |-> 1, starting_at |-> 1, home_score |-> 0]).row)}

RECURSIVE SeqsUpTo(_, _)
SeqsUpTo(S, n) ==
    IF n = 0 THEN {<<>>}
    ELSE LET shorter == SeqsUpTo(S, n - 1)
         IN  shorter \cup {Append(q, x) : q \in shorter, x \in S}

IngestInit ==
    /\ fixtures \in IngestTables
    /\ \E upstream \in SeqsUpTo(IngestFeed, MaxUpstream) :
          ingest = IngestStart(fixtures, upstream)
    /\ seasons = NoSeasons
    /\ standings = {}
    /\ knockout_ties = {}
    /\ points_pace = {}
    /\ lastOp = [op |-> "init"]
    /\ ClientIdle
    /\ pager = Idle
    /\ cache = Idle

IngestNext ==
    \/ IngestFixture
    \/ IngestFixtureWriteFails
    \/ IngestEnd
    \/ IngestEndWriteFails
    \/ IngestInterrupted
    \/ IngestRerun

SpecIngest == IngestInit /\ [][IngestNext]_vars

(***************************************************************************)
(*                     Claims about the chunked ingest                     *)
(***************************************************************************)

\* The positions of the provider's items that carry a starting_at.
KeptItems(upstream) == {k \in 1..Len(upstream) : upstream[k].starting_at # Null}

\* The fixtures table a single uninterrupted run over upstream leaves: every
\* fixture the provider returned holds the values of its last item, every
\* other fixture is as it was.
SingleRunTable(table, upstream) ==
    LET kept == KeptItems(upstream)
        ids == {upstream[k].id : k \in kept}
        last(i) == CHOOSE k \in kept :
                      upstream[k].id = i /\ \A j \in kept : upstream[j].id = i => j <= k
    IN  [i \in DOMAIN table \cup ids |->
            IF i \in ids THEN IngestRow(upstream[last(i)]).row ELSE table[i]]

\* C15: when a fixture ingest that was stopped after any number of committed
\* chunks is run again to completion against the same provider data, the
\* fixtures table is the table a single uninterrupted run produces.
C15_ResumeByRerun ==
    ingest.pc = "done" => fixtures = SingleRunTable(ingest.origin, ingest.upstream)

\* A second run completed after the first was stopped with a chunk committed
\* and a later item not yet written.
C15_Witness ==
    /\ ingest.pc = "done"
    /\ ingest.runs = 2
    /\ ingest.earlier >= 1
    /\ Len(ingest.writes) >= 2
    /\ fixtures # ingest.start

\* The rows of the successful writes of the current run, in order.
RECURSIVE CommittedRows(_, _)
CommittedRows(writes, n) ==
    IF n = 0 THEN <<>>
    ELSE CommittedRows(writes, n - 1) \o (IF writes[n].ok THEN writes[n].rows ELSE <<>>)

\* C16: when the write of chunk k raises, the run ends with the exception,
\* chunks 1..k-1 stay committed as written, the table shows nothing of chunk
\* k, and chunk k is the last write of the run.
C16_FailedChunkWritesNothing ==
    ingest.pc = "failed" =>
        LET k == Len(ingest.writes)
            before == CommittedRows(ingest.writes, k - 1)
        IN  /\ k >= 1
            /\ ~ingest.writes[k].ok
            /\ \A j \in 1..(k - 1) : ingest.writes[j].ok
            /\ fixtures = WriteRows(ingest.start, before, Len(before))

\* The second chunk failed after the first was committed, and its rows would
\* have changed the table.
C16_Witness ==
    /\ ingest.pc = "failed"
    /\ Len(ingest.writes) = 2
    /\ fixtures # ingest.start
    /\ WriteRows(fixtures, ingest.writes[2].rows, Len(ingest.writes[2].rows)) # fixtures


\* C17: no write of a batch carries more rows than the chunk size: the rows
\* one points-pace build hands to its single upsert_many are at most
\* ChunkRows.
C17_BatchesWithinChunkRows ==
    lastOp.op = "points_pace" => Cardinality(lastOp.batch) <= ChunkRows

\* The same statement about the fixture ingest: every write carries at most
\* ChunkRows rows, and the rows written by a completed run are the rows
\* produced, each in one write.
FixtureWritesWithinChunkRows ==
    /\ \A k \in 1..Len(ingest.writes) : Len(ingest.writes[k].rows) <= ChunkRows
    /\ ingest.pc = "done" =>
          LET kept == KeptItems(ingest.upstream)
              written == CommittedRows(ingest.writes, Len(ingest.writes))
          IN  /\ Len(written) = Cardinality(kept)
              /\ written = [n \in 1..Len(written) |->
                              IngestRow(SelectSeq(ingest.upstream,
                                                  LAMBDA fx : fx.starting_at # Null)[n])]


(***************************************************************************)
(*              Claims about the fixtures the derived tables use           *)
(***************************************************************************)

\* C18: only completed fixtures contribute to a derived row: every row of a
\* points-pace build is the row of a round in which the team has a completed
\* fixture of that league season, played at the row's match date.
C18_OnlyCompletedFixturesCount ==
    lastOp.op = "points_pace" =>
        \A r \in lastOp.batch :
            \E fid \in DOMAIN fixtures :
                /\ Completed(fid)
                /\ fixtures[fid].league_id = r.league_id
                /\ fixtures[fid].season_id = r.season_id
                /\ r.team_id \in {fixtures[fid].home_team_id, fixtures[fid].away_team_id}
                /\ fixtures[fid].starting_at = r.match_date

\* The same statement about the standings builds: a team has a row only when
\* it has a completed fixture in the scope, and the row counts the completed
\* fixtures only.
StandingsCountCompletedOnly ==
    AggregationRan =>
        \A r \in lastOp.batch :
            /\ TeamFixtures(r) # {}
            /\ r.matches_played = Cardinality(TeamFixtures(r))

(***************************************************************************)
(*   SpecNull: the builds over fixtures that may lack a team id            *)
(***************************************************************************)

\* A fixture of the league season of BIG5_SCOPE, played at time fid; a side
\* may be missing; the round is a league round or a knock-out round.
NullFeed(fid) ==
    {[league_id |-> BIG5_SCOPE.league_id, season_id |-> BIG5_SCOPE.season_id,
      competition_type |-> "league", stage_type_id |-> Null, group_id |-> Null,
      home_team_id |-> sd[1], away_team_id |-> sd[2], status |-> "past",
      home_score |-> sc[1], away_score |-> sc[2],
      round_name |-> rn, leg_number |-> Null, starting_at |-> fid,
      home_penalty_score |-> Null, away_penalty_score |-> Null] :
        sd \in {<<1, 2>>, <<Null, 2>>, <<1, Null>>},
        sc \in {<<1, 0>>, <<1, 1>>},
        rn \in {"Matchweek 1", "Round of 16"}}

NullFixtureIds == {1}

NullInit ==
    /\ fixtures = <<>>
    /\ seasons = PaceSeasons
    /\ standings = {}
    /\ knockout_ties = {}
    /\ points_pace = {}
    /\ lastOp = [op |-> "init"]
    /\ ClientIdle
    /\ RunIdle

NullNext ==
    \/ \E fid \in NullFixtureIds : \E row \in NullFeed(fid) :
          UpsertFixture(fid, row) /\ UNCHANGED <<clientVars, runVars>>
    \/ BuildLeagueStandings(BIG5_SCOPE.league_id, BIG5_SCOPE.season_id) /\ UNCHANGED <<clientVars, runVars>>
    \/ BuildKnockoutBrackets(BIG5_SCOPE.league_id, BIG5_SCOPE.season_id) /\ UNCHANGED <<clientVars, runVars>>
    \/ BuildPointsPaceAll /\ UNCHANGED <<clientVars, runVars>>

SpecNull == NullInit /\ [][NullNext]_vars

\* C19: a stored fixture whose home or away team id is NULL is tolerated by
\* the standings aggregation, the knockout-tie build and the points-pace
\* build: none of them raises and none emits a row keyed by a null team.
C19_NullTeamTolerated ==
    /\ lastOp.op # "raise"
    /\ lastOp.op \in {"league_standings", "points_pace"} =>
          \A r \in lastOp.batch : r.team_id # Null
    /\ lastOp.op = "knockout_brackets" =>
          \A kt \in lastOp.batch : kt.team1_id # Null /\ kt.team2_id # Null

(***************************************************************************)
(*   big5_bootstrap.py: the run-scoped league cache (Caches.league_meta)   *)
(*                                                                         *)
(* Each worker runs ensure_leagues_by_ids(sm, [lid], caches), as           *)
(* classify_comp_by_league_id calls it, over one shared Caches.  A worker  *)
(* is "idle" between calls, at "check" before the membership test, at      *)
(* "fetch" before sm.get_league and at "store" before the assignment to    *)
(* caches.league_meta.                                                     *)
(***************************************************************************)

MaxCalls == 2

Workers == {1, 2}

CacheLeagueIds == {2, 8}

\* sm.get_league(lid) returned {} (no data).
EmptyInfo == [id |-> Null, name |-> "", sub_type |-> ""]

\* What sm.get_league(lid) can return.
LeagueInfos(lid) ==
    {EmptyInfo, [id |-> lid, name |-> "league", sub_type |-> "domestic"]}

\* The value stored under caches.league_meta[info["id"]].
MetaOf(info) == [name |-> info.name, sub_type |-> info.sub_type]

WorkerIdle(calls) == [pc |-> "idle", lid |-> Null, info |-> EmptyInfo, calls |-> calls]

\* classify_comp_by_league_id(league_id, caches, sm) is entered.
CacheCall(w, lid) ==
    /\ cache.workers[w].pc = "idle"
    /\ cache.workers[w].calls < MaxCalls
    /\ cache' = [cache EXCEPT !.workers[w] =
                    [pc |-> "check", lid |-> lid, info |-> EmptyInfo, calls |-> @.calls + 1]]
    /\ UNCHANGED <<dbVars, clientVars, pager, ingest>>

\* if league_id not in caches.league_meta / if lid in caches.league_meta: continue
CacheCheck(w) ==
    /\ cache.workers[w].pc = "check"
    /\ cache' = [cache EXCEPT !.workers[w].pc =
                    IF cache.workers[w].lid \in DOMAIN cache.league_meta THEN "idle" ELSE "fetch"]
    /\ UNCHANGED <<dbVars, clientVars, pager, ingest>>

\* info = sm.get_league(lid); if not info: continue
CacheFetch(w) ==
    /\ cache.workers[w].pc = "fetch"
    /\ \E info \in LeagueInfos(cache.workers[w].lid) :
          cache' = [cache EXCEPT
                      !.fetches[cache.workers[w].lid] = @ + 1,
                      !.fetched = @ \cup {[lid |-> cache.workers[w].lid, info |-> info]},
                      !.workers[w].info = info,
                      !.workers[w].pc = IF info = EmptyInfo THEN "idle" ELSE "store"]
    /\ UNCHANGED <<dbVars, clientVars, pager, ingest>>

\* caches.league_meta[info["id"]] = {...}
CacheStore(w) ==
    /\ cache.workers[w].pc = "store"
    /\ LET info == cache.workers[w].info
       IN  cache' = [cache EXCEPT
                       !.league_meta = UpsertById(@, info.id, MetaOf(info)),
                       !.workers[w] = WorkerIdle(@.calls)]
    /\ UNCHANGED <<dbVars, clientVars, pager, ingest>>

\* Caches(): the state at the start of a run.
CacheInit ==
    /\ cache = [league_meta |-> <<>>,
                fetches |-> [lid \in CacheLeagueIds |-> 0],
                fetched |-> {},
                workers |-> [w \in Workers |-> WorkerIdle(0)]]
    /\ pager = Idle
    /\ ingest = Idle
    /\ ClientIdle
    /\ fixtures = <<>>
    /\ seasons = NoSeasons
    /\ standings = {}
    /\ knockout_ties = {}
    /\ points_pace = {}
    /\ lastOp = [op |-> "init"]

CacheNext ==
    \/ \E w \in Workers, lid \in CacheLeagueIds : CacheCall(w, lid)
    \/ \E w \in Workers : CacheCheck(w)
    \/ \E w \in Workers : CacheFetch(w)
    \/ \E w \in Workers : CacheStore(w)

SpecCache == CacheInit /\ [][CacheNext]_vars

\* C20: under any interleaving of the calls that share one Caches, each
\* league id is fetched at most once in the run, and league_meta holds for a
\* league the metadata that was fetched for it, once every call that fetched
\* it has returned.
C20_FetchedOncePerRun ==
    /\ \A lid \in CacheLeagueIds : cache.fetches[lid] <= 1
    /\ \A lid \in DOMAIN cache.league_meta :
          \E f \in cache.fetched : f.lid = lid /\ cache.league_meta[lid] = MetaOf(f.info)
    /\ (\A w \in Workers : cache.workers[w].pc = "idle") =>
          \A f \in cache.fetched : f.lid \in DOMAIN cache.league_meta

\* The same statement when only one worker makes calls and the provider
\* returns data for every league.
FetchedOnceByOneWorker ==
    (/\ cache.workers[2].calls = 0
     /\ \A f \in cache.fetched : f.info # EmptyInfo)
    => /\ \A lid \in CacheLeagueIds : cache.fetches[lid] <= 1
       /\ (cache.workers[1].pc = "idle") =>
             \A f \in cache.fetched :
                 f.lid \in DOMAIN cache.league_meta
                 /\ cache.league_meta[f.lid] = MetaOf(f.info)

(***************************************************************************)
(*   SpecGetLate: a call of _get with a larger max_retries, taken up after *)
(*   its first LateRequests requests were all answered 429 without a       *)
(*   Retry-After header                                                    *)
(***************************************************************************)

LateRequests == 5
LateRetriesArg == 8

\* backoff after n responses 429 in a row from the start of the call.
RECURSIVE BackoffAfter(_)
BackoffAfter(n) == IF n = 0 THEN InitialBackoff ELSE BackoffAfter429(BackoffAfter(n - 1))

\* The sleeps of those first requests.
LateSleeps ==
    [k \in 1..LateRequests |->
        [after |-> k, status |-> "429", header |-> NoHeader,
         base |-> RateLimitDelay(NoHeader, BackoffAfter(k - 1)),
         jitter |-> 0, backoff |-> BackoffAfter(k - 1)]]

GetLateInit ==
    /\ max_retries \in (LateRequests + 1)..LateRetriesArg
    /\ pc = "loop"
    /\ attempt = LateRequests
    /\ backoff = BackoffAfter(LateRequests)
    /\ last_exc = 0
    /\ history = [k \in 1..LateRequests |-> "429"]
    /\ sleeps = LateSleeps
    /\ result = NoResult
    /\ RunIdle
    /\ fixtures = <<>>
    /\ seasons = <<>>
    /\ standings = {}
    /\ knockout_ties = {}
    /\ points_pace = {}
    /\ lastOp = [op |-> "init"]

SpecGetLate == GetLateInit /\ [][GetNext]_vars

\* C25: whatever max_retries is configured and however 429 and 5xx responses
\* mix, the delay slept before the retry of a 5xx response, jitter excluded,
\* is at most 60 seconds.
C25_ServerErrorDelayCapped ==
    \A k \in 1..Len(sleeps) :
        sleeps[k].status = "5xx" => sleeps[k].base <= ServerErrorCap

\* The same statement for a call whose responses so far were all 5xx.
ServerErrorDelayCappedWithout429 ==
    \A k \in 1..Len(sleeps) :
        (sleeps[k].status = "5xx" /\ \A i \in 1..sleeps[k].after : history[i] = "5xx")
        => sleeps[k].base <= ServerErrorCap

\* C26: the delay slept on a 429, jitter excluded, is the Retry-After
\* duration when the header is present and numeric, and the current backoff
\* otherwise; the jitter is at most 0.5 s and the backoff at most 120 s.
C26_RateLimitDelay ==
    \A k \in 1..Len(sleeps) :
        sleeps[k].status = "429" =>
            /\ sleeps[k].base = (IF sleeps[k].header.kind = "num"
                                 THEN sleeps[k].header.ms ELSE sleeps[k].backoff)
            /\ sleeps[k].jitter <= RateLimitJitter
            /\ sleeps[k].backoff <= RateLimitCap

\* The same statement for Retry-After durations between 0.5 s and 120 s.
RateLimitDelayInsideClamp ==
    \A k \in 1..Len(sleeps) :
        (/\ sleeps[k].status = "429"
         /\ sleeps[k].header.kind = "num" =>
               (RateLimitFloor <= sleeps[k].header.ms /\ sleeps[k].header.ms <= RateLimitCap))
        => /\ sleeps[k].base = (IF sleeps[k].header.kind = "num"
                                THEN sleeps[k].header.ms ELSE sleeps[k].backoff)
           /\ sleeps[k].jitter <= RateLimitJitter
           /\ sleeps[k].backoff <= RateLimitCap

\* C30: every sleep of a call is followed by another request of the same
\* call: when the call has ended, no sleep came after its last request.
C30_SleepThenRetry ==
    pc = "done" => \A k \in 1..Len(sleeps) : sleeps[k].after < Len(history)

\* The same statement about the sleeps after 5xx responses.
ServerErrorSleepThenRetry ==
    pc = "done" =>
        \A k \in 1..Len(sleeps) : sleeps[k].status = "5xx" => sleeps[k].after < Len(history)


(***************************************************************************)
(*   big5_bootstrap.py, sm/helpers.py: normalisation of provider fields    *)
(*                                                                         *)
(* A Python str is the sequence of its characters.                         *)
(***************************************************************************)

\* str.startswith(prefix)
StartsWith(str, prefix) ==
    Len(str) >= Len(prefix) /\ SubSeq(str, 1, Len(prefix)) = prefix

\* str.upper(), for the letters that occur in the codes below.
UpperChar(c) ==
    IF c = "h" THEN "H" ELSE IF c = "t" THEN "T" ELSE IF c = "f" THEN "F" ELSE c

Upper(str) == [i \in 1..Len(str) |-> UpperChar(str[i])]

\* The state codes the provider may send, and codes it does not document.
StateCodes ==
    {<<>>,
     <<"N", "S">>,
     <<"T", "B", "A">>,
     <<"T", "B", "D">>,
     <<"H", "T">>,
     <<"B", "R", "E", "A", "K">>,
     <<"I", "N", "P", "L", "A", "Y", "_", "E", "T">>,
     <<"P", "O", "S", "T", "P">>,
     <<"P", "O", "S", "T", "P", "O", "N", "E", "D">>,
     <<"D", "E", "L", "A", "Y", "E", "D">>,
     <<"F", "T">>,
     <<"A", "E", "T">>,
     <<"L", "I", "V", "E">>,
     <<"E", "T">>,
     <<"h", "t">>,
     <<"f", "t">>}

\* The state code of a fixture: missing (None) or a text.
StateInputs == {[present |-> FALSE, text |-> <<>>]} \cup {[present |-> TRUE, text |-> c] : c \in StateCodes}

\* A classifier that has no default.
MapStateToStatus_NoDefault(state_code) ==
    LET code == IF state_code.present THEN Upper(state_code.text) ELSE <<>>
    IN  IF code = <<>> THEN "upcoming"
        ELSE IF StartsWith(code, <<"I", "N", "P", "L", "A", "Y">>) \/ code \in {<<"H", "T">>, <<"B", "R", "E", "A", "K">>}
        THEN "live"
        ELSE "upcoming"

\* _map_state_to_status(state_code) of big5_bootstrap.py
MapStateToStatus(state_code) ==
    LET code == IF state_code.present THEN Upper(state_code.text) ELSE <<>>
    IN  IF code = <<>> THEN "upcoming"
        ELSE IF StartsWith(code, <<"I", "N", "P", "L", "A", "Y">>) \/ code \in {<<"H", "T">>, <<"B", "R", "E", "A", "K">>}
        THEN "live"
        ELSE IF \/ code \in {<<"N", "S">>, <<"T", "B", "A">>}
                \/ StartsWith(code, <<"P", "O", "S", "T", "P">>)
                \/ StartsWith(code, <<"D", "E", "L", "A">>)
        THEN "upcoming"
        ELSE "past"

\* classify_fixture_state(state_code) of sm/helpers.py
ClassifyFixtureState(state_code) ==
    IF ~state_code.present \/ state_code.text = <<>> THEN "upcoming"
    ELSE LET code == Upper(state_code.text)
         IN  IF code \in {<<"N", "S">>, <<"T", "B", "A">>, <<"T", "B", "D">>, <<"P", "O", "S", "T", "P">>}
             THEN "upcoming"
             ELSE IF \/ StartsWith(code, <<"I", "N", "P", "L", "A", "Y">>)
                     \/ code \in {<<"L", "I", "V", "E">>, <<"H", "T">>, <<"E", "T">>, <<"E", "T", "_", "B", "R", "E", "A", "K">>, <<"P", "E", "N", "_", "L", "I", "V", "E">>}
             THEN "live"
             ELSE "past"

\* The ingest of big5_bootstrap.py classifies the state of a fixture.
MapState ==
    /\ lastOp.op = "raw"
    /\ lastOp.field = "state"
    /\ lastOp' = [op |-> "status", by |-> "_map_state_to_status", input |-> lastOp.input,
                  status |-> MapStateToStatus(lastOp.input)]
    /\ UNCHANGED <<fixtures, seasons, standings, knockout_ties, points_pace, clientVars, runVars>>

\* The ingest of sm/endpoints.py classifies the state of a fixture.
ClassifyState ==
    /\ lastOp.op = "raw"
    /\ lastOp.field = "state"
    /\ lastOp' = [op |-> "status", by |-> "classify_fixture_state", input |-> lastOp.input,
                  status |-> ClassifyFixtureState(lastOp.input)]
    /\ UNCHANGED <<fixtures, seasons, standings, knockout_ties, points_pace, clientVars, runVars>>


Digits == {"0", "1", "2", "3", "4", "5", "6", "7", "8", "9"}

DigitValue(c) ==
    CASE c = "0" -> 0 [] c = "1" -> 1 [] c = "2" -> 2 [] c = "3" -> 3 [] c = "4" -> 4
      [] c = "5" -> 5 [] c = "6" -> 6 [] c = "7" -> 7 [] c = "8" -> 8 [] c = "9" -> 9

\* The number written by the n digits of str from position at, or Null.
RECURSIVE NumberAt(_, _, _)
NumberAt(str, at, n) ==
    IF n = 0 THEN 0
    ELSE IF at + n - 1 > Len(str) \/ str[at + n - 1] \notin Digits THEN Null
    ELSE LET high == NumberAt(str, at, n - 1)
         IN  IF high = Null THEN Null ELSE high * 10 + DigitValue(str[at + n - 1])

CharAt(str, at) == IF at >= 1 /\ at <= Len(str) THEN str[at] ELSE ""

\* YYYY-MM-DD at position at, with a year of 1..9999, a month of 1..12 and a
\* day of 1..31.
DateAt(str, at) ==
    /\ NumberAt(str, at, 4) # Null /\ NumberAt(str, at, 4) >= 1
    /\ CharAt(str, at + 4) = "-"
    /\ NumberAt(str, at + 5, 2) # Null
    /\ NumberAt(str, at + 5, 2) >= 1 /\ NumberAt(str, at + 5, 2) <= 12
    /\ CharAt(str, at + 7) = "-"
    /\ NumberAt(str, at + 8, 2) # Null
    /\ NumberAt(str, at + 8, 2) >= 1 /\ NumberAt(str, at + 8, 2) <= 31

\* HH:MM at position at.
HourMinuteAt(str, at) ==
    /\ NumberAt(str, at, 2) # Null /\ NumberAt(str, at, 2) <= 23
    /\ CharAt(str, at + 2) = ":"
    /\ NumberAt(str, at + 3, 2) # Null /\ NumberAt(str, at + 3, 2) <= 59

\* HH:MM:SS at position at.
TimeAt(str, at) ==
    /\ HourMinuteAt(str, at)
    /\ CharAt(str, at + 5) = ":"
    /\ NumberAt(str, at + 6, 2) # Null /\ NumberAt(str, at + 6, 2) <= 59

\* [+-]HH:MM at position at.
OffsetAt(str, at) ==
    /\ CharAt(str, at) \in {"+", "-"}
    /\ HourMinuteAt(str, at + 1)

\* datetime.fromisoformat(str) succeeds, for the forms date, date + HH:MM,
\* date + HH:MM:SS and date + HH:MM:SS + offset (any separator character).
IsIsoFormat(str) ==
    /\ DateAt(str, 1)
    /\ \/ Len(str) = 10
       \/ Len(str) = 16 /\ HourMinuteAt(str, 12)
       \/ Len(str) = 19 /\ TimeAt(str, 12)
       \/ Len(str) = 25 /\ TimeAt(str, 12) /\ OffsetAt(str, 20)

\* dt.replace(tzinfo=None).strftime("%Y-%m-%d %H:%M:%S") of a parsed string:
\* the offset is dropped, missing time fields are zero.
IsoToTimestamp(str) ==
    SubSeq(str, 1, 10) \o <<" ">>
    \o (IF Len(str) = 10 THEN <<"0", "0", ":", "0", "0", ":", "0", "0">>
        ELSE IF Len(str) = 16 THEN SubSeq(str, 12, 16) \o <<":", "0", "0">>
        ELSE SubSeq(str, 12, 19))

\* str.replace(c, by) for a character c.
RECURSIVE ReplaceChar(_, _, _)
ReplaceChar(str, c, by) ==
    IF str = <<>> THEN <<>>
    ELSE (IF Head(str) = c THEN by ELSE <<Head(str)>>) \o ReplaceChar(Tail(str), c, by)

\* str.split(c, 1)[0]
RECURSIVE BeforeChar(_, _)
BeforeChar(str, c) ==
    IF str = <<>> \/ Head(str) = c THEN <<>>
    ELSE <<Head(str)>> \o BeforeChar(Tail(str), c)

Contains(str, c) == \E i \in 1..Len(str) : str[i] = c

\* str[:n]
Truncate(str, n) == SubSeq(str, 1, Min(n, Len(str)))

\* The except branch of _normalize_dt.
DtFallback(str) ==
    LET s3 == ReplaceChar(ReplaceChar(str, "T", <<" ">>), "Z", <<>>)
        cut == IF Contains(s3, "+") THEN BeforeChar(s3, "+")
               ELSE IF /\ Len(s3) >= 6
                       /\ s3[Len(s3) - 5] \in {"+", "-"}
                       /\ s3[Len(s3) - 2] = ":"
               THEN SubSeq(s3, 1, Len(s3) - 6)
               ELSE s3
    IN  Truncate(cut, 19)

NoText == [present |-> FALSE, text |-> <<>>]

Text(str) == [present |-> TRUE, text |-> str]

\* A _normalize_dt whose except branch returns None.
NormalizeDt_StrictOnly(s) ==
    IF ~s.present \/ s.text = <<>> THEN NoText
    ELSE LET s2 == ReplaceChar(s.text, "Z", <<"+", "0", "0", ":", "0", "0">>)
         IN  IF IsIsoFormat(s2) THEN Text(IsoToTimestamp(s2)) ELSE NoText

\* _normalize_dt(s)
NormalizeDt(s) ==
    IF ~s.present \/ s.text = <<>> THEN NoText
    ELSE LET s2 == ReplaceChar(s.text, "Z", <<"+", "0", "0", ":", "0", "0">>)
         IN  IF IsIsoFormat(s2) THEN Text(IsoToTimestamp(s2))
             ELSE Text(DtFallback(s.text))

\* The starting_at values the provider may send.
DtTexts ==
    {<<"2", "0", "2", "4", "-", "0", "5", "-", "0", "1", "T", "1", "8", ":", "3", "0", ":", "0", "0", "Z">>,
     <<"2", "0", "2", "4", "-", "0", "5", "-", "0", "1", "T", "1", "8", ":", "3", "0", ":", "0", "0", "+", "0", "2", ":", "0", "0">>,
     <<"2", "0", "2", "4", "-", "0", "5", "-", "0", "1", " ", "1", "8", ":", "3", "0", ":", "0", "0">>,
     <<"2", "0", "2", "4", "-", "0", "5", "-", "0", "1">>,
     <<"2", "0", "2", "4", "-", "0", "5", "-", "0", "1", " ", "1", "8", ":", "3", "0">>,
     <<"2", "0", "2", "4", "-", "0", "5", "-", "0", "1", " ", "1", "8", ":", "3", "0", ":", "0", "0", " ", "U", "T", "C">>,
     <<"2", "0", "2", "4", "-", "0", "5", "-", "0", "1", "T", "1", "8", ":", "3", "0", ":", "0", "0", "-", "0", "2", "0", "0">>,
     <<"2", "0", "2", "4", "-", "1", "3", "-", "4", "5", "T", "9", "9", ":", "9", "9", ":", "9", "9">>,
     <<"t", "o", "m", "o", "r", "r", "o", "w">>,
     <<"T", "B", "D">>,
     <<>>}

DtInputs == {NoText} \cup {Text(str) : str \in DtTexts}

\* The ingest normalises starting_at / ending_at.
NormalizeTimestamp ==
    /\ lastOp.op = "raw"
    /\ lastOp.field = "starting_at"
    /\ lastOp' = [op |-> "dt", input |-> lastOp.input, value |-> NormalizeDt(lastOp.input)]
    /\ UNCHANGED <<fixtures, seasons, standings, knockout_ties, points_pace, clientVars, runVars>>


\* str.lower() of a location or side tag.
LowerTag(tag) ==
    IF tag = "Home" THEN "home" ELSE IF tag = "AWAY" THEN "away" ELSE tag

\* _extract_home_away_ids(participants) over the first n participants.
RECURSIVE ExtractHomeAwayIds(_, _)
ExtractHomeAwayIds(participants, n) ==
    IF n = 0 THEN [home |-> Null, away |-> Null]
    ELSE LET acc == ExtractHomeAwayIds(participants, n - 1)
             loc == LowerTag(participants[n].location)
         IN  IF loc = "home" THEN [acc EXCEPT !.home = participants[n].id]
             ELSE IF loc = "away" THEN [acc EXCEPT !.away = participants[n].id]
             ELSE acc

\* a or b, for ids: None and 0 are falsy.
OrId(a, b) == IF a # Null /\ a # 0 THEN a ELSE b

\* s.get("participant_id") or s.get("team_id")
ScorePid(sc) == OrId(sc.participant_id, sc.team_id)

\* _guess_home_away_by_scores(scores) over the first n entries.
RECURSIVE GuessHomeAwayByScores(_, _)
GuessHomeAwayByScores(scores, n) ==
    IF n = 0 THEN [home |-> Null, away |-> Null]
    ELSE LET acc == GuessHomeAwayByScores(scores, n - 1)
             side == LowerTag(scores[n].side)
             pid == ScorePid(scores[n])
         IN  IF side = "home" /\ pid # Null THEN [acc EXCEPT !.home = pid]
             ELSE IF side = "away" /\ pid # Null THEN [acc EXCEPT !.away = pid]
             ELSE acc

\* A fallback that prefers the id of the score breakdown.
FallbackId_PreferGuess(id, guess) == OrId(guess, id)

\* home_id = home_id or g_home
FallbackId(id, guess) == OrId(id, guess)

\* Lines 421-425 of upsert_domestic_via_fixtures_api.
HomeAwayIds(participants, scores) ==
    LET ex == ExtractHomeAwayIds(participants, Len(participants))
        g == GuessHomeAwayByScores(scores, Len(scores))
    IN  IF ex.home = Null \/ ex.away = Null
        THEN [home |-> FallbackId(ex.home, g.home), away |-> FallbackId(ex.away, g.away)]
        ELSE ex

\* The participants of a fixture: at most one per location; the location tag
\* or the id may be missing.
ParticipantEntries ==
    {[location |-> loc, id |-> id] : loc \in {"home", "away", "Home", ""}, id \in {Null, 1, 2}}

ParticipantLists ==
    {<<>>} \cup {<<p>> : p \in ParticipantEntries}
    \cup {pq \in {<<p, q>> : p, q \in ParticipantEntries} :
              \/ LowerTag(pq[2].location) = ""
              \/ LowerTag(pq[2].location) # LowerTag(pq[1].location)}

\* The entries of the score breakdown: the side tag and the ids they carry.
ScoreEntries ==
    {[side |-> sd, participant_id |-> pid, team_id |-> tid] :
        sd \in {"home", "away", ""}, pid \in {Null, 3}, tid \in {Null, 4}}

ScoreLists ==
    {<<>>} \cup {<<a>> : a \in ScoreEntries} \cup {<<a, b>> : a, b \in ScoreEntries}

\* The ingest resolves the sides of a fixture.
ResolveSides ==
    /\ lastOp.op = "raw"
    /\ lastOp.field = "sides"
    /\ lastOp' = [op |-> "sides", input |-> lastOp.input,
                  ids |-> HomeAwayIds(lastOp.input.participants, lastOp.input.scores)]
    /\ UNCHANGED <<fixtures, seasons, standings, knockout_ties, points_pace, clientVars, runVars>>

(***************************************************************************)
(*   SpecNorm: one provider field is normalised                            *)
(***************************************************************************)

NormInit ==
    /\ \/ \E x \in StateInputs : lastOp = [op |-> "raw", field |-> "state", input |-> x]
       \/ \E x \in DtInputs : lastOp = [op |-> "raw", field |-> "starting_at", input |-> x]
       \/ \E ps \in ParticipantLists : \E scs \in ScoreLists :
             lastOp = [op |-> "raw", field |-> "sides",
                       input |-> [participants |-> ps, scores |-> scs]]
    /\ fixtures = <<>>
    /\ seasons = NoSeasons
    /\ standings = {}
    /\ knockout_ties = {}
    /\ points_pace = {}
    /\ ClientIdle
    /\ RunIdle

NormNext ==
    \/ MapState
    \/ ClassifyState
    \/ NormalizeTimestamp
    \/ ResolveSides

SpecNorm == NormInit /\ [][NormNext]_vars

(***************************************************************************)
(*                     Claims about the normalisation                      *)
(***************************************************************************)

\* The ids of the participants tagged with the side.
ParticipantIds(participants, side) ==
    {participants[i].id : i \in {k \in 1..Len(participants) :
        LowerTag(participants[k].location) = side /\ participants[k].id # Null}}

\* The ids of the score-breakdown entries tagged with the side.
ScoreIds(scores, side) ==
    {ScorePid(scores[i]) : i \in {k \in 1..Len(scores) :
        LowerTag(scores[k].side) = side /\ ScorePid(scores[k]) # Null}}

SideResolved(input, side, id) ==
    IF ParticipantIds(input.participants, side) # {}
    THEN id \in ParticipantIds(input.participants, side)
    ELSE IF ScoreIds(input.scores, side) # {}
    THEN id \in ScoreIds(input.scores, side)
    ELSE id = Null

\* C21: the team id of each side is the id of the participant tagged with
\* that location when there is one, otherwise an id of a score-breakdown
\* entry tagged with that side, otherwise null; an id given by a participant
\* is never replaced by one of the score breakdown.
C21_SidesResolved ==
    lastOp.op = "sides" =>
        /\ SideResolved(lastOp.input, "home", lastOp.ids.home)
        /\ SideResolved(lastOp.input, "away", lastOp.ids.away)

\* The home side came from the participant although the score breakdown
\* names another home id, and the away side came from the score breakdown.
C21_Witness ==
    /\ lastOp.op = "sides"
    /\ lastOp.ids = [home |-> 1, away |-> 3]
    /\ ParticipantIds(lastOp.input.participants, "away") = {}
    /\ ScoreIds(lastOp.input.scores, "home") = {4}

\* A 'YYYY-MM-DD HH:MM:SS' timestamp.
IsTimestamp(str) ==
    Len(str) = 19 /\ DateAt(str, 1) /\ str[11] = " " /\ TimeAt(str, 12)

\* C22: _normalize_dt returns null for a string that matches no format: what
\* it returns is null or a 'YYYY-MM-DD HH:MM:SS' timestamp, so no other
\* string is persisted as a timestamp.
C22_NullWhenNoFormatMatches ==
    lastOp.op = "dt" =>
        (lastOp.value.present => IsTimestamp(lastOp.value.text))

\* The same statement for the inputs that are ISO-8601 or that the
\* truncation reduces to a timestamp.
TimestampWhenAFormatMatches ==
    (/\ lastOp.op = "dt"
     /\ lastOp.input.present
     /\ \/ IsIsoFormat(ReplaceChar(lastOp.input.text, "Z", <<"+", "0", "0", ":", "0", "0">>))
        \/ IsTimestamp(DtFallback(lastOp.input.text)))
    => lastOp.value.present /\ IsTimestamp(lastOp.value.text)

\* The classification the specification gives for a state code.
StatusOf(state_code) ==
    LET code == IF state_code.present THEN Upper(state_code.text) ELSE <<>>
    IN  IF code = <<>> THEN "upcoming"
        ELSE IF \/ StartsWith(code, <<"I", "N", "P", "L", "A", "Y">>)
                \/ code = <<"H", "T">>
                \/ code = <<"B", "R", "E", "A", "K">>
        THEN "live"
        ELSE IF \/ code = <<"N", "S">>
                \/ code = <<"T", "B", "A">>
                \/ StartsWith(code, <<"P", "O", "S", "T", "P">>)
                \/ StartsWith(code, <<"D", "E", "L", "A">>)
        THEN "upcoming"
        ELSE "past"

\* C23: the status classification is total onto {upcoming, live, past}: a
\* missing or empty code is 'upcoming'; INPLAY..., HT and BREAK are 'live';
\* NS, TBA, POSTP... and DELA... are 'upcoming'; every other code is 'past'.
C23_StatusClassification ==
    lastOp.op = "status" =>
        /\ lastOp.status \in {"upcoming", "live", "past"}
        /\ lastOp.status = StatusOf(lastOp.input)

\* The same statement about _map_state_to_status alone.
MapStateToStatusClassification ==
    (lastOp.op = "status" /\ lastOp.by = "_map_state_to_status") =>
        /\ lastOp.status \in {"upcoming", "live", "past"}
        /\ lastOp.status = StatusOf(lastOp.input)


(***************************************************************************)
(*                     Claims about the points pace                        *)
(***************************************************************************)

\* The fixtures of the team among the selected ones, and those of one round.
TeamGames(ids, team_id) ==
    {fid \in ids : team_id \in {fixtures[fid].home_team_id, fixtures[fid].away_team_id}}

RoundGames(ids, team_id, rnd) ==
    {fid \in TeamGames(ids, team_id) : RoundNo(ids, fid) = rnd}

\* The fixture of the round with the latest match date.
LatestOfRound(ids, team_id, rnd) ==
    CHOOSE fid \in RoundGames(ids, team_id, rnd) :
        \A g \in RoundGames(ids, team_id, rnd) : StartingAt(g) <= StartingAt(fid)

\* The points of the latest fixtures of the given rounds.
RECURSIVE SumOfRounds(_, _, _)
SumOfRounds(ids, team_id, rounds) ==
    IF rounds = {} THEN 0
    ELSE LET rnd == CHOOSE x \in rounds : TRUE
         IN  CalcPoints(fixtures[LatestOfRound(ids, team_id, rnd)], team_id)
             + SumOfRounds(ids, team_id, rounds \ {rnd})

\* C24: for each team the rows computed by _rows_for_league_season have
\* pairwise distinct round numbers, one per round the team has a fixture in;
\* of the fixtures of one round only the one with the latest match date is
\* counted; the cumulative value at round r is the sum of the points (3, 1, 0)
\* of the counted fixtures of the rounds up to r.
C24_RowsPerRound ==
    lastOp.op = "points_pace" =>
        \A r \in lastOp.batch :
            LET ids == PaceSelect(r.league_id, r.season_id)
                rounds == {RoundNo(ids, fid) : fid \in TeamGames(ids, r.team_id)}
            IN  /\ \A o \in lastOp.batch : PaceKey(o) = PaceKey(r) => o = r
                /\ r.round_no \in rounds
                /\ \A rnd \in rounds : \E o \in lastOp.batch :
                      PaceKey(o) = <<r.league_id, r.season_id, r.team_id, rnd>>
                /\ r.match_date = StartingAt(LatestOfRound(ids, r.team_id, r.round_no))
                /\ r.cumulative_points =
                      SumOfRounds(ids, r.team_id, {rnd \in rounds : rnd <= r.round_no})

\* Team 1 won the earlier and lost the later fixture of round 1: its row of
\* round 1 counts the later one only.
C24_Witness ==
    /\ lastOp.op = "points_pace"
    /\ DOMAIN fixtures = {1, 2}
    /\ \A fid \in {1, 2} : RoundNo(PaceSelect(BIG5_SCOPE.league_id, BIG5_SCOPE.season_id), fid) = 1
    /\ fixtures[1].home_score > fixtures[1].away_score
    /\ fixtures[2].home_score < fixtures[2].away_score
    /\ \E r \in lastOp.batch :
          r.team_id = 1 /\ r.round_no = 1 /\ r.match_date = 2 /\ r.cumulative_points = 0

\* A team has rows at two rounds, the later one adding to the earlier one.
TwoRoundsAccumulate ==
    /\ lastOp.op = "points_pace"
    /\ \E r, o \in lastOp.batch :
          /\ r.team_id = o.team_id
          /\ r.round_no < o.round_no
          /\ r.cumulative_points > 0
          /\ o.cumulative_points > r.cumulative_points


\* C28: after any sequence of recomputations the stored cumulative_points of
\* each (league, season, team) are non-decreasing in round_no.
C28_StoredPaceNonDecreasing ==
    \A r, o \in points_pace :
        (/\ r.league_id = o.league_id
         /\ r.season_id = o.season_id
         /\ r.team_id = o.team_id
         /\ r.round_no < o.round_no)
        => r.cumulative_points <= o.cumulative_points

\* The rows one computation produces are non-decreasing in round_no.
ComputedPaceNonDecreasing ==
    lastOp.op = "points_pace" =>
        \A r, o \in lastOp.batch :
            (/\ r.league_id = o.league_id
             /\ r.season_id = o.season_id
             /\ r.team_id = o.team_id
             /\ r.round_no < o.round_no)
            => r.cumulative_points <= o.cumulative_points


(***************************************************************************)
(*   SpecShootout: one tie of two legs whose shootout scores may be        *)
(*   recorded for both sides, for one side or not at all                   *)
(***************************************************************************)

\* _extract_penalty_shootout_scores keeps each side's score on its own, so a
\* fixture can carry the score of one side only.
ShootoutScores ==
    TieShootouts
    \cup {[home_penalty_score |-> 3, away_penalty_score |-> Null],
          [home_penalty_score |-> Null, away_penalty_score |-> 3]}

\* Fixture 1 is the first leg and fixture 2 the second leg of a round of 16
\* of the Champions League 2021/2022, where away goals do not count.
ShootoutFeed(fid) ==
    {sd @@ sc @@ pn @@
     [league_id |-> EURO_SCOPE.league_id, season_id |-> TieSeason,
      competition_type |-> "europe", stage_type_id |-> STAGE_TYPE_KNOCK_OUT,
      group_id |-> Null, status |-> "past", round_name |-> "Round of 16",
      leg_number |-> fid, starting_at |-> fid] :
        sd \in TieSides, sc \in TieScores, pn \in ShootoutScores}

ShootoutInit ==
    /\ \E ids \in SUBSET {1, 2} :
          /\ fixtures \in [ids -> UNION {ShootoutFeed(fid) : fid \in ids}]
          /\ \A fid \in ids : fixtures[fid] \in ShootoutFeed(fid)
    /\ seasons = (TieSeason :> [league_id |-> EURO_SCOPE.league_id,
                                name |-> "2021/2022", starting_at |-> 2021])
    /\ standings = {}
    /\ knockout_ties = {}
    /\ points_pace = {}
    /\ lastOp = [op |-> "init"]
    /\ ClientIdle
    /\ RunIdle

ShootoutNext ==
    \/ BuildKnockoutBrackets(EURO_SCOPE.league_id, TieSeason) /\ UNCHANGED <<clientVars, runVars>>
    \/ FinalizeKnockoutWinners /\ UNCHANGED <<clientVars, runVars>>

SpecShootout == ShootoutInit /\ [][ShootoutNext]_vars

\* The legs of the tie that carry the shootout score of both sides.
PairLegs(kt) ==
    {fid \in TieLegs(kt) : fixtures[fid].home_penalty_score # Null
                            /\ fixtures[fid].away_penalty_score # Null}

LastPairLeg(kt) ==
    CHOOSE fid \in PairLegs(kt) : \A o \in PairLegs(kt) : o = fid \/ LegBefore(o, fid)

\* The winner of the shootout of the last leg that carries a score pair.
PairWinner(kt) ==
    IF PairLegs(kt) = {} THEN Null
    ELSE LET fid == LastPairLeg(kt)
         IN  IF ShootoutScore(fid, kt.team1_id) > ShootoutScore(fid, kt.team2_id) THEN kt.team1_id
             ELSE IF ShootoutScore(fid, kt.team1_id) < ShootoutScore(fid, kt.team2_id) THEN kt.team2_id
             ELSE Null

\* C27: when the shootout decides a tie, build_knockout_brackets_for_season
\* uses the last leg, in (start time, leg number, fixture id) order, that
\* carries the penalty score of both sides; a leg with the penalty score of
\* one side only is never selected and never decides the winner.
C27_ShootoutPairDecides ==
    lastOp.op = "knockout_brackets" =>
        \A kt \in lastOp.batch :
            (/\ kt.aggregate_team1 = kt.aggregate_team2
             /\ \/ ~Gated(kt)
                \/ TotalAwayGoals(kt, kt.team1_id) = TotalAwayGoals(kt, kt.team2_id))
            => kt.winner_team_id = PairWinner(kt)

\* The same statement for the ties whose legs carry the score of both sides or
\* of none.
ShootoutPairDecidesWhenPairsOnly ==
    lastOp.op = "knockout_brackets" =>
        \A kt \in lastOp.batch :
            (/\ kt.aggregate_team1 = kt.aggregate_team2
             /\ \/ ~Gated(kt)
                \/ TotalAwayGoals(kt, kt.team1_id) = TotalAwayGoals(kt, kt.team2_id)
             /\ ShootoutLegs(kt) = PairLegs(kt))
            => kt.winner_team_id = PairWinner(kt)


(***************************************************************************)
(*   SpecCorrection: a single-leg tie whose fixture the provider corrects  *)
(*                                                                         *)
(* SQL_UPSERT_FIXTURE overwrites every column of a stored fixture, the two *)
(* team ids included, so a re-ingestion can change the teams of a fixture  *)
(* a tie row already refers to.                                            *)
(***************************************************************************)

CorrectionTeams == {1, 2, 3}

CorrectionSides ==
    {[home_team_id |-> h, away_team_id |-> a] : h, a \in CorrectionTeams} \
    {[home_team_id |-> t, away_team_id |-> t] : t \in CorrectionTeams}

CorrectionStates ==
    {[status |-> "upcoming", home_score |-> Null, away_score |-> Null] @@ NoShootout}
    \cup {[status |-> "past", home_score |-> sc[1], away_score |-> sc[2]] @@ pn :
             sc \in {<<0, 0>>, <<1, 0>>}, pn \in TieShootouts}

CorrectionFeed ==
    {sd @@ st @@
     [league_id |-> EURO_SCOPE.league_id, season_id |-> EURO_SCOPE.season_id,
      competition_type |-> "europe", stage_type_id |-> STAGE_TYPE_KNOCK_OUT,
      group_id |-> Null, round_name |-> "Final", leg_number |-> Null,
      starting_at |-> 1] :
        sd \in CorrectionSides, st \in CorrectionStates}

CorrectionInit ==
    /\ fixtures = <<>>
    /\ seasons = RoundSeason
    /\ standings = {}
    /\ knockout_ties = {}
    /\ points_pace = {}
    /\ lastOp = [op |-> "init"]
    /\ ClientIdle
    /\ RunIdle

CorrectionNext ==
    \/ \E row \in CorrectionFeed : UpsertFixture(1, row) /\ UNCHANGED <<clientVars, runVars>>
    \/ BuildKnockoutBrackets(EURO_SCOPE.league_id, EURO_SCOPE.season_id) /\ UNCHANGED <<clientVars, runVars>>
    \/ FinalizeKnockoutWinners /\ UNCHANGED <<clientVars, runVars>>

SpecCorrection == CorrectionInit /\ [][CorrectionNext]_vars

\* C29: every stored tie has team1_id < team2_id and a winner that is null,
\* team1_id or team2_id, after any sequence of builds, fixture re-ingestions
\* and winner backfills.
C29_TieRowWellFormed ==
    \A kt \in knockout_ties :
        /\ kt.team1_id < kt.team2_id
        /\ kt.winner_team_id \in {Null, kt.team1_id, kt.team2_id}

\* The ordering of the pair alone.
TiePairOrdered ==
    \A kt \in knockout_ties : kt.team1_id < kt.team2_id


====
